---------------------------- MODULE Spec2Model ----------------------------
(***************************************************************************)
(* Model of the SE05x T=1-over-I2C block engine of libifdse                *)
(* (src/src/halse_se05x.c) together with the I2C retry wrapper it calls.   *)
(*                                                                         *)
(* One session (struct halse_se05x_dev) is modelled.  Every I2C           *)
(* transaction is a step of the model: the environment (bus and secure    *)
(* element) chooses its outcome and, for a read, the bytes delivered.     *)
(* Buffers are indexed from 0 as in the C source.                         *)
(***************************************************************************)
EXTENDS Integers, Sequences, FiniteSets, TLC

(***************************************************************************)
(* Program constants (decimal; the C source writes most of them in hex).   *)
(***************************************************************************)
SE05X_NAD == 90
HOST_NAD == 165
PWT_ms == 5
US_PER_MS == 1000
SIZE_PROLOGUE == 3
SIZE_INF_MAX == 254
SIZE_EPILOGUE == 2
I_BLOCK == 0
I_BLOCK_MASK == 128
R_BLOCK == 128
R_BLOCK_MASK == 192
S_BLOCK == 192
S_BLOCK_MASK == 192
CMD_REQ == 0
CMD_RES == 32
CMD_REQRES_MASK == 32
CMD_RESYNC == 0
CMD_WTX == 3
CMD_SOFT_RESET == 15
CMD_RESET == 6
CMD_TYPE_MASK == 31
CMD_ERROR_MASK == 3
NS_FIELD == 64
CHAIN_FIELD == 32
ETIMEDOUT == 110
\* The errno of a read(2) or write(2) that failed for another reason than a
\* NACK; the I2C backend returns it negated.
EIO == 5
\* The other values that is_nack takes for a NACK.
ENXIO == 6
EREMOTEIO == 121
\* The errno that usleep sets when a signal interrupts it.
EINTR == 4

BUF_SIZE == SIZE_PROLOGUE + SIZE_INF_MAX + SIZE_EPILOGUE

(***************************************************************************)
(* Bounds of the model.                                                    *)
(***************************************************************************)
\* The largest number of I-blocks one transmitted APDU is split into.
MaxTxBlocks == 2
\* The largest number of chained (more-data) I-blocks the device sends in
\* one response.
MaxRxChain == 1
\* The largest number of WTX requests the device sends in one session.
MaxWtx == 1
\* The largest number of disturbances in one session: I2C transfers that do
\* not move all bytes, and malformed blocks.
MaxNoise == 1
\* The largest number of I-blocks sent between two clears of N(S).
MaxSends == 3
\* The largest number of facade calls made on the session once it is open.
MaxCalls == 2
\* The environment disturbs the session, and the device asks for more time,
\* only while the session is opened and during its first MaxNoisyCalls calls.
MaxNoisyCalls == 1

(***************************************************************************)
(* C arrays are sequences: element i of the C array is element i + 1 of    *)
(* the sequence.                                                           *)
(***************************************************************************)
At(buf, i) == buf[i + 1]

\* The sequence <<F(lo), ..., F(hi)>>.
RECURSIVE Tabulate(_, _, _)
Tabulate(F(_), lo, hi) ==
    IF hi < lo THEN <<>>
    ELSE IF hi = lo THEN <<F(lo)>>
    ELSE LET mid == (lo + hi) \div 2
         IN  Tabulate(F, lo, mid) \o Tabulate(F, mid + 1, hi)

\* n zero bytes.
Zeros(n) == Tabulate(LAMBDA i : 0, 1, n)

\* memcpy(buf + off, q, Len(q)).
Store(buf, off, q) ==
    SubSeq(buf, 1, off) \o q \o SubSeq(buf, off + Len(q) + 1, Len(buf))

(***************************************************************************)
(* Bit operations of C on integers of up to 16 bits.  The operation is     *)
(* defined bit by bit, tabulated once for 4-bit operands, and applied to   *)
(* the four nibbles of the operands.                                       *)
(***************************************************************************)
RECURSIVE AndBits(_, _)
AndBits(a, b) ==
    IF a = 0 \/ b = 0 THEN 0
    ELSE ((a % 2) * (b % 2)) + 2 * AndBits(a \div 2, b \div 2)

RECURSIVE OrBits(_, _)
OrBits(a, b) ==
    IF a = 0 THEN b
    ELSE IF b = 0 THEN a
    ELSE (IF a % 2 = 1 \/ b % 2 = 1 THEN 1 ELSE 0)
             + 2 * OrBits(a \div 2, b \div 2)

RECURSIVE XorBits(_, _)
XorBits(a, b) ==
    IF a = 0 THEN b
    ELSE IF b = 0 THEN a
    ELSE ((a + b) % 2) + 2 * XorBits(a \div 2, b \div 2)

AndTab ==
    Tabulate(LAMBDA x : Tabulate(LAMBDA y : AndBits(x, y), 0, 15), 0, 15)
OrTab ==
    Tabulate(LAMBDA x : Tabulate(LAMBDA y : OrBits(x, y), 0, 15), 0, 15)
XorTab ==
    Tabulate(LAMBDA x : Tabulate(LAMBDA y : XorBits(x, y), 0, 15), 0, 15)

\* The operation tabulated in T on nibble k of a and b.
Nibble(T, a, b, k) == T[((a \div k) % 16) + 1][((b \div k) % 16) + 1]

Nibbles(T, a, b) ==
    IF a < 256 /\ b < 256
    THEN T[(a % 16) + 1][(b % 16) + 1]
             + 16 * T[(a \div 16) + 1][(b \div 16) + 1]
    ELSE Nibble(T, a, b, 1) + 16 * Nibble(T, a, b, 16)
             + 256 * Nibble(T, a, b, 256) + 4096 * Nibble(T, a, b, 4096)

And(a, b) == Nibbles(AndTab, a, b)
Or(a, b) == Nibbles(OrTab, a, b)
Xor(a, b) == Nibbles(XorTab, a, b)

Min(a, b) == IF a < b THEN a ELSE b

\* F applied to the value v: a local variable of the C code that is assigned
\* once and read several times.
With(v, F(_)) == F(v)

(***************************************************************************)
(* PCB classification.                                                     *)
(***************************************************************************)
is_i_block(pcb) == And(pcb, I_BLOCK_MASK) = I_BLOCK
is_r_block(pcb) == And(pcb, R_BLOCK_MASK) = R_BLOCK
is_r_block_with_error(pcb) == is_r_block(pcb) /\ And(pcb, CMD_ERROR_MASK) # 0
is_s_block(pcb) == And(pcb, S_BLOCK_MASK) = S_BLOCK
is_s_block_request(pcb) == is_s_block(pcb) /\ And(pcb, CMD_REQRES_MASK) = CMD_REQ
is_s_block_response(pcb) == is_s_block(pcb) /\ And(pcb, CMD_REQRES_MASK) = CMD_RES

(***************************************************************************)
(* CRC16 of T=1 blocks.  FlipBit(v, w) is v ^ w for a power of two w, and  *)
(* XorPoly(v) is v ^ 0x8408 (bits 15, 10 and 3).  crc_loop is the for loop *)
(* over buf[lo..hi); it is evaluated by halving the range, and the         *)
(* intermediate value is forced before the second half is entered.        *)
(***************************************************************************)
FlipBit(v, w) == IF (v \div w) % 2 = 1 THEN v - w ELSE v + w
XorPoly(v) == FlipBit(FlipBit(FlipBit(v, 32768), 1024), 8)

crc_shift(crc) == IF crc % 2 = 1 THEN XorPoly(crc \div 2) ELSE crc \div 2

\* The inner for loop: eight shifts.
crc_bits(crc) ==
    crc_shift(crc_shift(crc_shift(crc_shift(
    crc_shift(crc_shift(crc_shift(crc_shift(crc))))))))

\* The eight shifts move the high byte of crc down unchanged and xor into it
\* what they make of the low byte alone, which is tabulated once.
CrcTab == Tabulate(crc_bits, 0, 255)

\* One pass of the outer for loop: crc ^= byte, then the eight shifts.  The
\* byte changes the low byte of crc only, and the high byte of crc, moved
\* down, changes the low byte of the tabulated value only.
crc_byte(crc, byte) ==
    LET t == CrcTab[Xor(crc % 256, byte) + 1]
    IN  (t - (t % 256)) + Xor(crc \div 256, t % 256)

RECURSIVE crc_loop(_, _, _, _)
crc_loop(buf, lo, hi, crc) ==
    IF hi <= lo THEN crc
    ELSE IF hi = lo + 1 THEN crc_byte(crc, buf[hi])
    ELSE LET mid == (lo + hi) \div 2
             c == crc_loop(buf, lo, mid, crc)
         IN  IF c >= 0 THEN crc_loop(buf, mid, hi, c) ELSE 0

\* swap_uint16 that returns its argument.
swap_uint16_not(v) == v

swap_uint16(v) == ((v * 256) % 65536) + (v \div 256)

halse_se05x_calculate_crc(buf, len) ==
    swap_uint16(Xor(crc_loop(buf, 0, len, 65535), 65535))


(***************************************************************************)
(* The state.                                                              *)
(*   dev       struct halse_se05x_dev: n_s, n_r, txbuf, txlen,             *)
(*             txretransmit, rxbuf, atr, atr_len, and whether the I2C and  *)
(*             GPIO handles are set                                        *)
(*   gpio_line value last driven on the reset line                        *)
(*   pc        position of the single caller thread                       *)
(*   op        the facade operation that is running or has just returned *)
(*   cont      the caller that waits for halse_se05x_recv_block           *)
(*   ret       return value of the operation that has just returned       *)
(*   a         arguments of the running xfer                              *)
(*   tx_off, rx_off, rx_buf, rx_len   locals and out-parameters of xfer   *)
(*   h         history of the running operation (not program state)       *)
(*   g         history since N(S) was last cleared (not program state)    *)
(*   calls     number of facade calls made since the session was opened   *)
(*   env       what the environment has done so far in the session: WTX   *)
(*             requests sent, and disturbances                            *)
(*   io        the running call of hali2c_read_with_retry or              *)
(*             hali2c_write_with_retry: its arguments, its counter, and   *)
(*             the results of the calls of dev->read or dev->write        *)
(***************************************************************************)
VARIABLES dev, gpio_line, pc, op, cont, ret, a, tx_off, rx_off, rx_buf,
          rx_len, h, g, calls, env, io

vars == <<dev, gpio_line, pc, op, cont, ret, a, tx_off, rx_off, rx_buf,
          rx_len, h, g, calls, env, io>>

\* The state as one record; the operators below map records to records.
\* Becomes(s) makes s the next state, unless the environment would have to
\* disturb the session more often than the bound allows to get there.
Cur ==
    [dev |-> dev, gpio_line |-> gpio_line, pc |-> pc, op |-> op,
     cont |-> cont, ret |-> ret, a |-> a, tx_off |-> tx_off,
     rx_off |-> rx_off, rx_buf |-> rx_buf, rx_len |-> rx_len,
     h |-> h, g |-> g, calls |-> calls, env |-> env, io |-> io]

Becomes(s) ==
    /\ s.env.noise <= MaxNoise
    /\ dev' = s.dev
    /\ gpio_line' = s.gpio_line
    /\ pc' = s.pc
    /\ op' = s.op
    /\ cont' = s.cont
    /\ ret' = s.ret
    /\ a' = s.a
    /\ tx_off' = s.tx_off
    /\ rx_off' = s.rx_off
    /\ rx_buf' = s.rx_buf
    /\ rx_len' = s.rx_len
    /\ h' = s.h
    /\ g' = s.g
    /\ calls' = s.calls
    /\ env' = s.env
    /\ io' = s.io

ZeroBuf == Zeros(BUF_SIZE)

\* calloc(1, sizeof(*dev)) followed by a successful halse_se05x_parse.
NewDev(gpio) ==
    [i2c_dev |-> TRUE, gpio_dev |-> gpio, atr |-> <<>>, atr_set |-> FALSE,
     atr_len |-> 0, n_s |-> 0, n_r |-> 0, txbuf |-> ZeroBuf, txlen |-> 0,
     txretransmit |-> FALSE, rxbuf |-> ZeroBuf]

NoArgs ==
    [tx_buf |-> <<>>, tx_null |-> FALSE, tx_len |-> 0, rx_null |-> FALSE,
     rx_len_null |-> FALSE, cap |-> 0]

\* The history of the running operation.
\*   wr      its I2C writes in order: the caller, the block written with
\*           its PCB and length, the number of I2C reads made before, the
\*           outcome and the return value
\*   ev      its other steps in order (GPIO switched, sleeps, power_up
\*           returned 0), each with the number of I2C writes made before
\*   rd      the number of its I2C reads
\*   tx_inf  the INF fields of the I-blocks written, concatenated
\*   tok     the blocks recv_block returned to send_i_block, each with the
\*           N(S) of that moment
\*   rx      the blocks recv_block returned to the read loop of xfer
\*   rx_inf  the INF fields of the I-blocks among them, concatenated
\*   wtx     WTX requests answered
\*   err_r   R-blocks with error received
\*   ns0     N(S) when the operation was called
\*   snap    N(S), N(R), the retransmit latch and the cached transmit block
\*           as they were when the block now awaiting its answer was sent;
\*           a retransmission sets the latch in it
NoSnap == [n_s |-> 0, n_r |-> 0, latch |-> FALSE, tx |-> <<>>]

NoHist ==
    [wr |-> <<>>, rd |-> 0, tx_inf |-> <<>>, tok |-> <<>>, rx |-> <<>>,
     rx_inf |-> <<>>, wtx |-> 0, err_r |-> 0, ns0 |-> 0, snap |-> NoSnap,
     ev |-> <<>>]

\* No call of a with-retry wrapper is running.
NoIo ==
    [fn |-> "none", dev |-> FALSE, len |-> 0, max_attempts |-> 0,
     counter |-> 0, res |-> <<>>, slept |-> 0]

\* sent: PCBs of the I-blocks written since the last clear_state; ok: calls
\* of send_i_block that returned 0 since then; failed: whether one failed.
NoSends == [sent |-> <<>>, ok |-> 0, failed |-> FALSE]

(***************************************************************************)
(* The I2C transport as the block engine sees it.  An outcome names what   *)
(* the underlying transfers did:                                           *)
(*   "ok"      an attempt transferred exactly len bytes (returns 0)        *)
(*   "zero"    an attempt transferred 0 of len bytes (returns that 0)      *)
(*   "partial" an attempt transferred 1 of len > 1 bytes (returns 1)       *)
(*   "nack"    every attempt was NACKed (returns -ETIMEDOUT)               *)
(*   "eio"     an attempt failed with another error (returns -EIO)         *)
(***************************************************************************)
WriteOutcomes == {"ok", "zero", "nack", "eio"}
ReadOutcomes == {"ok", "zero", "partial", "nack"}

hali2c_read_with_retry(o, len) ==
    CASE o = "ok" -> 0
      [] o = "zero" -> 0
      [] o = "partial" -> 1
      [] o = "nack" -> -ETIMEDOUT
      [] OTHER -> -EIO

hali2c_write_with_retry(o, len) ==
    CASE o = "ok" -> 0
      [] o = "zero" -> 0
      [] o = "partial" -> 1
      [] o = "nack" -> -ETIMEDOUT
      [] OTHER -> -EIO

\* Number of bytes an outcome moves.
Moved(o, len) ==
    CASE o = "ok" -> len
      [] o = "partial" -> 1
      [] OTHER -> 0

\* A result of a C function: the state it leaves and its return value.
Res(s, r) == [s |-> s, r |-> r]

\* The step named e added to the history; us is the time slept.
Event(s, e, us) ==
    [s EXCEPT !.h.ev = Append(@, [e |-> e, us |-> us, wr |-> Len(s.h.wr)])]

\* usleep returns 0, or -1 when a signal interrupts it.
SleepOutcomes == {"ok", "fail"}

usleep(uo) == IF uo = "ok" THEN 0 ELSE -1

\* The environment's count of disturbances.
Noise(s, o) == IF o # "ok" THEN [s EXCEPT !.env.noise = @ + 1] ELSE s

\* halse_se05x_write_i2c(dev, dev->txbuf, dev->txlen); kind names the
\* caller for the history.
halse_se05x_write_i2c(s, kind, o) ==
    LET r == hali2c_write_with_retry(o, s.dev.txlen)
        e == [kind |-> kind, pcb |-> At(s.dev.txbuf, 1), len |-> s.dev.txlen,
              blk |-> SubSeq(s.dev.txbuf, 1, s.dev.txlen), rd |-> s.h.rd,
              o |-> o, r |-> r]
    IN  Res([Noise(s, o) EXCEPT !.h.wr = Append(@, e)], r)

\* halse_se05x_read_i2c(dev, dev->rxbuf + off, len): devq holds the bytes of
\* the device's block that are not read yet; the device delivers 0 once the
\* block is exhausted.
halse_se05x_read_i2c(s, devq, off, len, o) ==
    LET n == Moved(o, len)
        got == IF n <= Len(devq) THEN SubSeq(devq, 1, n)
               ELSE devq \o Zeros(n - Len(devq))
    IN  Res([Noise(s, o) EXCEPT !.dev.rxbuf = Store(@, off, got),
                                !.h.rd = @ + 1],
            hali2c_read_with_retry(o, len))

\* What is left of the device's block after a read with outcome o.
Rest(devq, o, len) ==
    IF Moved(o, len) >= Len(devq) THEN <<>>
    ELSE SubSeq(devq, Moved(o, len) + 1, Len(devq))



(***************************************************************************)
(* Session state helpers.                                                  *)
(***************************************************************************)
halse_se05x_clear_state(s) ==
    [s EXCEPT !.dev.n_s = 0, !.dev.n_r = 0, !.g = NoSends]

\* halse_se05x_clear_buf without the reset of the retransmit latch.
clear_buf_keeps_latch(s) ==
    [s EXCEPT !.dev.txbuf = ZeroBuf, !.dev.txlen = 0, !.dev.rxbuf = ZeroBuf]

\* halse_se05x_clear_buf that also clears N(S).
clear_buf_clears_ns(s) ==
    [s EXCEPT !.dev.txbuf = ZeroBuf, !.dev.txlen = 0,
              !.dev.txretransmit = FALSE, !.dev.rxbuf = ZeroBuf,
              !.dev.n_s = 0]

halse_se05x_clear_buf(s) ==
    [s EXCEPT !.dev.txbuf = ZeroBuf, !.dev.txlen = 0,
              !.dev.txretransmit = FALSE, !.dev.rxbuf = ZeroBuf]

(***************************************************************************)
(* Block codec, sending side.  The last parameter of every sender is the   *)
(* outcome of the I2C write it ends with.                                  *)
(***************************************************************************)
\* halse_se05x_crc_and_send that stores the low byte of the CRC first.
crc_and_send_low_byte_first(s, len, kind, o) ==
    With(halse_se05x_calculate_crc(s.dev.txbuf, len), LAMBDA crc :
         halse_se05x_write_i2c(
             [s EXCEPT !.dev.txbuf = Store(@, len, <<And(crc, 255),
                                                     crc \div 256>>),
                       !.dev.txlen = len + SIZE_EPILOGUE], kind, o))

halse_se05x_crc_and_send(s, len, kind, o) ==
    With(halse_se05x_calculate_crc(s.dev.txbuf, len), LAMBDA crc :
         halse_se05x_write_i2c(
            [s EXCEPT !.dev.txbuf = Store(@, len,
                                          <<crc \div 256, And(crc, 255)>>),
                      !.dev.txlen = len + SIZE_EPILOGUE],
            kind, o))

\* halse_se05x_resend that toggles N(S) as the sending of a new I-block does.
resend_toggles_ns(s, o) ==
    IF s.dev.txretransmit
    THEN Res(s, -ETIMEDOUT)
    ELSE halse_se05x_write_i2c([s EXCEPT !.dev.txretransmit = TRUE,
                                         !.dev.n_s = Xor(@, 1)],
                               "resend", o)

\* halse_se05x_resend that never sets the retransmit latch.
resend_without_latch(s, o) ==
    halse_se05x_write_i2c(s, "resend", o)

halse_se05x_resend(s, o) ==
    IF s.dev.txretransmit
    THEN Res(s, -ETIMEDOUT)
    ELSE halse_se05x_write_i2c([s EXCEPT !.dev.txretransmit = TRUE],
                               "resend", o)

\* buf is the sequence of the len payload bytes.
\* halse_se05x_send_s_block that leaves the type out of the PCB.
send_s_block_without_type(s, d, t, buf, len, kind, o) ==
    IF len > SIZE_INF_MAX
    THEN Res(s, -1)
    ELSE LET tb == Store(s.dev.txbuf, 0,
                         <<SE05X_NAD, Or(S_BLOCK, d), len>> \o buf)
         IN  halse_se05x_crc_and_send([s EXCEPT !.dev.txbuf = tb],
                                      SIZE_PROLOGUE + len, kind, o)

halse_se05x_send_s_block(s, d, t, buf, len, kind, o) ==
    IF len > SIZE_INF_MAX
    THEN Res(s, -1)
    ELSE LET tb == Store(s.dev.txbuf, 0,
                         <<SE05X_NAD, Or(Or(S_BLOCK, d), t), len>> \o buf)
         IN  halse_se05x_crc_and_send([s EXCEPT !.dev.txbuf = tb],
                                      SIZE_PROLOGUE + len, kind, o)

halse_se05x_send_s_block_noinf(s, d, t, o) ==
    halse_se05x_send_s_block(s, d, t, <<>>, 0, "s_req", o)

\* halse_se05x_send_i_block up to the write, without the toggle of N(S).
send_i_block_write_keeps_ns(s, buf, len, chain, o) ==
    IF len > SIZE_INF_MAX
    THEN Res(s, -1)
    ELSE LET ns_field == IF s.dev.n_s # 0 THEN NS_FIELD ELSE 0
             chain_field == IF chain THEN CHAIN_FIELD ELSE 0
             tb == Store(s.dev.txbuf, 0,
                         <<SE05X_NAD, Or(Or(I_BLOCK, ns_field), chain_field),
                           len>> \o buf)
             s1 == [s EXCEPT !.dev.txbuf = tb,
                             !.h.tx_inf = @ \o SubSeq(tb, SIZE_PROLOGUE + 1,
                                                      SIZE_PROLOGUE + len)]
         IN  With(halse_se05x_crc_and_send(s1, SIZE_PROLOGUE + len,
                                           "i_block", o),
                  LAMBDA w :
                      IF w.r # 0
                      THEN Res(w.s, -1)
                      ELSE Res([w.s EXCEPT !.g.sent = Append(@, At(tb, 1))],
                               0))

\* halse_se05x_send_i_block up to and including the write of the block.
send_i_block_write(s, buf, len, chain, o) ==
    IF len > SIZE_INF_MAX
    THEN Res(s, -1)
    ELSE LET ns_field == IF s.dev.n_s # 0 THEN NS_FIELD ELSE 0
             chain_field == IF chain THEN CHAIN_FIELD ELSE 0
             tb == Store(s.dev.txbuf, 0,
                         <<SE05X_NAD, Or(Or(I_BLOCK, ns_field), chain_field),
                           len>> \o buf)
             s1 == [s EXCEPT !.dev.txbuf = tb,
                             !.dev.n_s = Xor(@, 1),
                             !.h.tx_inf = @ \o SubSeq(tb, SIZE_PROLOGUE + 1,
                                                      SIZE_PROLOGUE + len)]
         IN  With(halse_se05x_crc_and_send(s1, SIZE_PROLOGUE + len,
                                           "i_block", o),
                  LAMBDA w :
                      IF w.r # 0
                      THEN Res(w.s, -1)
                      ELSE Res([w.s EXCEPT !.g.sent = Append(@, At(tb, 1))],
                               0))

\* send_i_block_token without the comparison of N(R) with N(S).
send_i_block_token_any_nr(s, r) ==
    IF r # 0
    THEN r
    ELSE LET pcb == At(s.dev.rxbuf, 1)
             ee == And(pcb, CMD_ERROR_MASK)
         IN  IF ~is_r_block(pcb) THEN -1
             ELSE IF ee # 0 THEN -1
             ELSE 0

\* halse_se05x_send_i_block after the write, when chain is set: r is what
\* halse_se05x_recv_block returned for the token-passing block.
send_i_block_token(s, r) ==
    IF r # 0
    THEN r
    ELSE LET pcb == At(s.dev.rxbuf, 1)
             ee == And(pcb, CMD_ERROR_MASK)
             n_r == And(pcb \div 16, 1)
         IN  IF ~is_r_block(pcb) THEN -1
             ELSE IF ee # 0 THEN -1
             ELSE IF n_r # s.dev.n_s THEN -1
             ELSE 0

\* halse_se05x_send_r_block that puts N(R) one bit too high.
send_r_block_nr_shifted(s, n_r, ee, o) ==
    LET nr_field == n_r * 32
        tb == Store(s.dev.txbuf, 0,
                    <<SE05X_NAD, Or(Or(R_BLOCK, nr_field), ee), 0>>)
    IN  halse_se05x_crc_and_send([s EXCEPT !.dev.txbuf = tb], SIZE_PROLOGUE,
                                 "r_block", o)

halse_se05x_send_r_block(s, n_r, ee, o) ==
    LET nr_field == n_r * 16
        tb == Store(s.dev.txbuf, 0,
                    <<SE05X_NAD, Or(Or(R_BLOCK, nr_field), ee), 0>>)
    IN  halse_se05x_crc_and_send([s EXCEPT !.dev.txbuf = tb], SIZE_PROLOGUE,
                                 "r_block", o)

(***************************************************************************)
(* Waiting for the device.                                                 *)
(***************************************************************************)
\* The session as the sender of a block leaves it to the caller of
\* halse_se05x_recv_block.
Await(s, caller) ==
    [s EXCEPT !.pc = "recv", !.cont = caller,
              !.h.snap = [n_s |-> s.dev.n_s, n_r |-> s.dev.n_r,
                          latch |-> s.dev.txretransmit,
                          tx |-> SubSeq(s.dev.txbuf, 1, s.dev.txlen)]]

(***************************************************************************)
(* How an operation ends.                                                  *)
(***************************************************************************)
halse_se05x_close(s) ==
    [s EXCEPT !.dev.i2c_dev = FALSE, !.dev.gpio_dev = FALSE]

\* Return r from the facade operation s.op.  halse_se05x_open closes the
\* handles when a step failed, and halse_open_se05x then frees the session.
Return(s, r) ==
    IF s.op = "open" /\ r # 0
    THEN [halse_se05x_close(s) EXCEPT !.pc = "closed", !.ret = -1]
    ELSE [s EXCEPT !.pc = "done", !.ret = r]

\* The end: label of halse_se05x_xfer.
xfer_end(s, r) == Return(halse_se05x_clear_buf(s), r)

(***************************************************************************)
(* The callers of halse_se05x_recv_block, from the point where it returns  *)
(* r.  o is the outcome of the I2C write the caller may go on to make.     *)
(***************************************************************************)
\* The length of the I-block the write loop of xfer is sending.
XferLen(s) == Min(SIZE_INF_MAX, s.a.tx_len - s.tx_off)

\* send_i_block returns to the write loop after the token-passing block.
xfer_after_token(s, r) ==
    LET t == send_i_block_token(s, r)
        s0 == IF r # 0 THEN s
              ELSE [s EXCEPT !.h.tok = Append(@, [pcb |-> At(s.dev.rxbuf, 1),
                                                  n_s |-> s.dev.n_s])]
    IN  IF t # 0
        THEN xfer_end([s0 EXCEPT !.g.failed = TRUE], t)
        ELSE [s0 EXCEPT !.g.ok = @ + 1, !.tx_off = @ + XferLen(s),
                        !.pc = "xfer_write"]

\* The body of the read loop without the truncation to the caller's
\* capacity.
xfer_read_no_truncation(s, r, o) ==
    IF r # 0
    THEN xfer_end(s, r)
    ELSE LET pcb == At(s.dev.rxbuf, 1)
             blen == At(s.dev.rxbuf, 2)
             s0 == [s EXCEPT !.h.rx = Append(@, [pcb |-> pcb, len |-> blen,
                                                 rd |-> s.h.rd])]
         IN  IF ~is_i_block(pcb)
             THEN xfer_end(s0, r)
             ELSE LET inf(n) == SubSeq(s.dev.rxbuf, SIZE_PROLOGUE + 1,
                                       SIZE_PROLOGUE + n)
                      rb == SubSeq(s.rx_buf, 1, s.rx_off) \o inf(blen)
                      s1 == [s0 EXCEPT !.rx_buf = rb, !.rx_off = @ + blen,
                                       !.h.rx_inf = @ \o inf(blen)]
                      chain == And(pcb \div 32, 1)
                      n_s == And(pcb \div 64, 1)
                      n_r == Xor(n_s, 1)
                  IN  IF chain # 0
                      THEN With(halse_se05x_send_r_block(s1, n_r, 0, o),
                                LAMBDA w : IF w.r # 0
                                           THEN xfer_end(w.s, w.r)
                                           ELSE Await(w.s, "read"))
                      ELSE xfer_end([s1 EXCEPT !.rx_len = s1.rx_off], 0)

\* The body of the read loop, toggling N(R) for every I-block it accepts.
xfer_read_counts_nr(s, r, o) ==
    IF r # 0
    THEN xfer_end(s, r)
    ELSE LET pcb == At(s.dev.rxbuf, 1)
             blen == At(s.dev.rxbuf, 2)
             s0 == [s EXCEPT !.h.rx = Append(@, [pcb |-> pcb, len |-> blen,
                                                 rd |-> s.h.rd])]
         IN  IF ~is_i_block(pcb)
             THEN xfer_end(s0, r)
             ELSE LET len == IF s.rx_off + blen > s.rx_len
                             THEN s.rx_len - s.rx_off
                             ELSE blen
                      inf(n) == SubSeq(s.dev.rxbuf, SIZE_PROLOGUE + 1,
                                       SIZE_PROLOGUE + n)
                      rb == SubSeq(s.rx_buf, 1, s.rx_off) \o inf(len)
                      s1 == [s0 EXCEPT !.dev.n_r = Xor(@, 1), !.rx_buf = rb, !.rx_off = @ + len,
                                       !.h.rx_inf = @ \o inf(blen)]
                      chain == And(pcb \div 32, 1)
                      n_s == And(pcb \div 64, 1)
                      n_r == Xor(n_s, 1)
                  IN  IF chain # 0
                      THEN With(halse_se05x_send_r_block(s1, n_r, 0, o),
                                LAMBDA w : IF w.r # 0
                                           THEN xfer_end(w.s, w.r)
                                           ELSE Await(w.s, "read"))
                      ELSE xfer_end([s1 EXCEPT !.rx_len = s1.rx_off], 0)

\* The body of the read loop of xfer after recv_block.
xfer_read(s, r, o) ==
    IF r # 0
    THEN xfer_end(s, r)
    ELSE LET pcb == At(s.dev.rxbuf, 1)
             blen == At(s.dev.rxbuf, 2)
             s0 == [s EXCEPT !.h.rx = Append(@, [pcb |-> pcb, len |-> blen,
                                                 rd |-> s.h.rd])]
         IN  IF ~is_i_block(pcb)
             THEN xfer_end(s0, r)
             ELSE LET len == IF s.rx_off + blen > s.rx_len
                             THEN s.rx_len - s.rx_off
                             ELSE blen
                      inf(n) == SubSeq(s.dev.rxbuf, SIZE_PROLOGUE + 1,
                                       SIZE_PROLOGUE + n)
                      rb == SubSeq(s.rx_buf, 1, s.rx_off) \o inf(len)
                      s1 == [s0 EXCEPT !.rx_buf = rb, !.rx_off = @ + len,
                                       !.h.rx_inf = @ \o inf(blen)]
                      chain == And(pcb \div 32, 1)
                      n_s == And(pcb \div 64, 1)
                      n_r == Xor(n_s, 1)
                  IN  IF chain # 0
                      THEN With(halse_se05x_send_r_block(s1, n_r, 0, o),
                                LAMBDA w : IF w.r # 0
                                           THEN xfer_end(w.s, w.r)
                                           ELSE Await(w.s, "read"))
                      ELSE xfer_end([s1 EXCEPT !.rx_len = s1.rx_off], 0)

\* halse_se05x_warm_reset_dev that takes the ATR from any block.
warm_reset_dev_tail_any_pcb(s, r) ==
    IF r # 0
    THEN Return(s, -1)
    ELSE LET len == At(s.dev.rxbuf, 2)
             atr == SubSeq(s.dev.rxbuf, SIZE_PROLOGUE + 1, SIZE_PROLOGUE + len)
             freed == IF s.dev.atr_set THEN s.env.heap - 1 ELSE s.env.heap
         IN  Return([s EXCEPT !.dev.atr = atr, !.dev.atr_set = TRUE,
                              !.dev.atr_len = len, !.env.heap = freed + 1], 0)

\* halse_se05x_warm_reset_dev after recv_block, caching the INF field
\* before it looks at the PCB.
warm_reset_dev_tail_caches_first(s, r) ==
    IF r # 0
    THEN Return(s, -1)
    ELSE LET len == At(s.dev.rxbuf, 2)
             atr == SubSeq(s.dev.rxbuf, SIZE_PROLOGUE + 1, SIZE_PROLOGUE + len)
             freed == IF s.dev.atr_set THEN s.env.heap - 1 ELSE s.env.heap
             s1 == [s EXCEPT !.dev.atr = atr, !.dev.atr_set = TRUE,
                             !.dev.atr_len = len, !.env.heap = freed + 1]
         IN  IF At(s.dev.rxbuf, 1) # Or(Or(S_BLOCK, CMD_RES), CMD_SOFT_RESET)
             THEN Return(s1, -1)
             ELSE Return(s1, 0)

\* halse_se05x_warm_reset_dev after recv_block.
warm_reset_dev_tail(s, r) ==
    IF r # 0
    THEN Return(s, -1)
    ELSE IF At(s.dev.rxbuf, 1) # Or(Or(S_BLOCK, CMD_RES), CMD_SOFT_RESET)
    THEN Return(s, -1)
    ELSE LET len == At(s.dev.rxbuf, 2)
             atr == SubSeq(s.dev.rxbuf, SIZE_PROLOGUE + 1, SIZE_PROLOGUE + len)
             freed == IF s.dev.atr_set THEN s.env.heap - 1 ELSE s.env.heap
         IN  Return([s EXCEPT !.dev.atr = atr, !.dev.atr_set = TRUE,
                              !.dev.atr_len = len, !.env.heap = freed + 1], 0)

\* halse_se05x_warm_reset: clear the state, then send SOFT_RESET.
halse_se05x_warm_reset(s, o) ==
    With(halse_se05x_send_s_block_noinf(halse_se05x_clear_state(s),
                                        CMD_REQ, CMD_SOFT_RESET, o),
         LAMBDA w : IF w.r # 0
                    THEN Return(w.s, -1)
                    ELSE Await(w.s, "warm"))

\* halse_se05x_power_up that does not clear the state.
power_up_keeps_state(s, uo, o) ==
    LET s2 == Event(Event(s, "sleep", PWT_ms * US_PER_MS), "power_up", 0)
    IN  IF usleep(uo) # 0
        THEN Return(s, -1)
        ELSE IF s.op = "open"
        THEN halse_se05x_warm_reset(s2, o)
        ELSE Return(s2, 0)

\* halse_se05x_power_up from the point where it clears the state: uo is the
\* outcome of its sleep; inside halse_se05x_open the warm reset follows.
power_up_done(s, uo, o) ==
    LET s1 == halse_se05x_clear_state(s)
        s2 == Event(Event(s1, "sleep", PWT_ms * US_PER_MS), "power_up", 0)
    IN  IF usleep(uo) # 0
        THEN Return(s1, -1)
        ELSE IF s.op = "open"
        THEN halse_se05x_warm_reset(s2, o)
        ELSE Return(s2, 0)

\* halse_se05x_hard_reset_dev after recv_block, and the rest of power_up.
\* halse_se05x_hard_reset_dev that caches the INF of the response as the
\* warm reset does.
hard_reset_dev_tail_caches(s, r, uo, o) ==
    IF r # 0
    THEN Return(s, -1)
    ELSE IF At(s.dev.rxbuf, 1) # Or(Or(S_BLOCK, CMD_RES), CMD_RESET)
    THEN Return(s, -1)
    ELSE power_up_done(
             [s EXCEPT !.dev.atr = SubSeq(s.dev.rxbuf, SIZE_PROLOGUE + 1,
                                          SIZE_PROLOGUE + At(s.dev.rxbuf, 2)),
                       !.dev.atr_len = At(s.dev.rxbuf, 2)], uo, o)

hard_reset_dev_tail(s, r, uo, o) ==
    IF r # 0
    THEN Return(s, -1)
    ELSE IF At(s.dev.rxbuf, 1) # Or(Or(S_BLOCK, CMD_RES), CMD_RESET)
    THEN Return(s, -1)
    ELSE power_up_done(s, uo, o)

after_recv(s, r, uo, o) ==
    CASE s.cont = "token" -> xfer_after_token(s, r)
      [] s.cont = "read" -> xfer_read(s, r, o)
      [] s.cont = "warm" -> warm_reset_dev_tail(s, r)
      [] OTHER -> hard_reset_dev_tail(s, r, uo, o)


(***************************************************************************)
(* halse_se05x_recv_block: the read of the header, the read of the INF     *)
(* field, and what follows the reads (CRC check, WTX answer, retransmit).  *)
(* recv_block_check gives the state, the return value, and whether the     *)
(* function calls itself again (the tail calls).                           *)
(***************************************************************************)
\* recv_block_check that answers a WTX request with its LEN byte.
recv_block_check_echoes_len(s, o) ==
    LET len == At(s.dev.rxbuf, 2)
        exp_crc == halse_se05x_calculate_crc(s.dev.rxbuf, SIZE_PROLOGUE + len)
        act_crc == Or((At(s.dev.rxbuf, SIZE_PROLOGUE + len) * 256) % 65536,
                      At(s.dev.rxbuf, SIZE_PROLOGUE + len + 1))
        pcb == At(s.dev.rxbuf, 1)
    IN  IF exp_crc # act_crc
        THEN [s |-> s, r |-> -1, again |-> FALSE]
        ELSE IF is_s_block_request(pcb)
        THEN IF And(pcb, CMD_TYPE_MASK) = CMD_WTX
             THEN With(halse_se05x_send_s_block(
                           [s EXCEPT !.h.wtx = @ + 1], CMD_RES, CMD_WTX,
                           <<At(s.dev.rxbuf, 2)>>, 1, "wtx", o),
                       LAMBDA wtx :
                           IF wtx.r # 0
                           THEN [s |-> wtx.s, r |-> -1, again |-> FALSE]
                           ELSE [s |-> wtx.s, r |-> 0, again |-> TRUE])
             ELSE [s |-> s, r |-> -1, again |-> FALSE]
        ELSE IF is_r_block_with_error(pcb)
        THEN With(halse_se05x_resend([s EXCEPT !.h.err_r = @ + 1,
                                               !.h.snap.latch = TRUE], o),
                  LAMBDA rs :
                      IF rs.r # 0
                      THEN [s |-> rs.s, r |-> rs.r, again |-> FALSE]
                      ELSE [s |-> rs.s, r |-> 0, again |-> TRUE])
        ELSE [s |-> s, r |-> 0, again |-> FALSE]

\* recv_block_check that reports a CRC error to the device with an R-block.
recv_block_check_reports_crc(s, o) ==
    LET len == At(s.dev.rxbuf, 2)
        exp_crc == halse_se05x_calculate_crc(s.dev.rxbuf, SIZE_PROLOGUE + len)
        act_crc == Or((At(s.dev.rxbuf, SIZE_PROLOGUE + len) * 256) % 65536,
                      At(s.dev.rxbuf, SIZE_PROLOGUE + len + 1))
        pcb == At(s.dev.rxbuf, 1)
    IN  IF exp_crc # act_crc
        THEN [s |-> halse_se05x_send_r_block(s, s.dev.n_r, 1, o).s, r |-> -1,
              again |-> FALSE]
        ELSE IF is_s_block_request(pcb)
        THEN IF And(pcb, CMD_TYPE_MASK) = CMD_WTX
             THEN With(halse_se05x_send_s_block(
                           [s EXCEPT !.h.wtx = @ + 1], CMD_RES, CMD_WTX,
                           <<At(s.dev.rxbuf, 3)>>, 1, "wtx", o),
                       LAMBDA wtx :
                           IF wtx.r # 0
                           THEN [s |-> wtx.s, r |-> -1, again |-> FALSE]
                           ELSE [s |-> wtx.s, r |-> 0, again |-> TRUE])
             ELSE [s |-> s, r |-> -1, again |-> FALSE]
        ELSE IF is_r_block_with_error(pcb)
        THEN With(halse_se05x_resend([s EXCEPT !.h.err_r = @ + 1,
                                               !.h.snap.latch = TRUE], o),
                  LAMBDA rs :
                      IF rs.r # 0
                      THEN [s |-> rs.s, r |-> rs.r, again |-> FALSE]
                      ELSE [s |-> rs.s, r |-> 0, again |-> TRUE])
        ELSE [s |-> s, r |-> 0, again |-> FALSE]

\* recv_block_check that answers an S-block request of any type as it
\* answers WTX.
recv_block_check_any_request(s, o) ==
    LET len == At(s.dev.rxbuf, 2)
        exp_crc == halse_se05x_calculate_crc(s.dev.rxbuf, SIZE_PROLOGUE + len)
        act_crc == Or((At(s.dev.rxbuf, SIZE_PROLOGUE + len) * 256) % 65536,
                      At(s.dev.rxbuf, SIZE_PROLOGUE + len + 1))
        pcb == At(s.dev.rxbuf, 1)
    IN  IF exp_crc # act_crc
        THEN [s |-> s, r |-> -1, again |-> FALSE]
        ELSE IF is_s_block_request(pcb)
        THEN IF And(pcb, CMD_TYPE_MASK) = And(pcb, CMD_TYPE_MASK)
             THEN With(halse_se05x_send_s_block(
                           [s EXCEPT !.h.wtx = @ + 1], CMD_RES, CMD_WTX,
                           <<At(s.dev.rxbuf, 3)>>, 1, "wtx", o),
                       LAMBDA wtx :
                           IF wtx.r # 0
                           THEN [s |-> wtx.s, r |-> -1, again |-> FALSE]
                           ELSE [s |-> wtx.s, r |-> 0, again |-> TRUE])
             ELSE [s |-> s, r |-> -1, again |-> FALSE]
        ELSE IF is_r_block_with_error(pcb)
        THEN With(halse_se05x_resend([s EXCEPT !.h.err_r = @ + 1,
                                               !.h.snap.latch = TRUE], o),
                  LAMBDA rs :
                      IF rs.r # 0
                      THEN [s |-> rs.s, r |-> rs.r, again |-> FALSE]
                      ELSE [s |-> rs.s, r |-> 0, again |-> TRUE])
        ELSE [s |-> s, r |-> 0, again |-> FALSE]

\* recv_block_check that rejects a block whose NAD is not HOST_NAD.
recv_block_check_rejects_nad(s, o) ==
    LET len == At(s.dev.rxbuf, 2)
        exp_crc == halse_se05x_calculate_crc(s.dev.rxbuf, SIZE_PROLOGUE + len)
        act_crc == Or((At(s.dev.rxbuf, SIZE_PROLOGUE + len) * 256) % 65536,
                      At(s.dev.rxbuf, SIZE_PROLOGUE + len + 1))
        pcb == At(s.dev.rxbuf, 1)
    IN  IF exp_crc # act_crc \/ At(s.dev.rxbuf, 0) # HOST_NAD
        THEN [s |-> s, r |-> -1, again |-> FALSE]
        ELSE IF is_s_block_request(pcb)
        THEN IF And(pcb, CMD_TYPE_MASK) = CMD_WTX
             THEN With(halse_se05x_send_s_block(
                           [s EXCEPT !.h.wtx = @ + 1], CMD_RES, CMD_WTX,
                           <<At(s.dev.rxbuf, 3)>>, 1, "wtx", o),
                       LAMBDA wtx :
                           IF wtx.r # 0
                           THEN [s |-> wtx.s, r |-> -1, again |-> FALSE]
                           ELSE [s |-> wtx.s, r |-> 0, again |-> TRUE])
             ELSE [s |-> s, r |-> -1, again |-> FALSE]
        ELSE IF is_r_block_with_error(pcb)
        THEN With(halse_se05x_resend([s EXCEPT !.h.err_r = @ + 1,
                                               !.h.snap.latch = TRUE], o),
                  LAMBDA rs :
                      IF rs.r # 0
                      THEN [s |-> rs.s, r |-> rs.r, again |-> FALSE]
                      ELSE [s |-> rs.s, r |-> 0, again |-> TRUE])
        ELSE [s |-> s, r |-> 0, again |-> FALSE]

\* recv_block_check that retransmits only for the R-blocks whose EE has
\* bit 0 set.
recv_block_check_passes_error(s, o) ==
    LET len == At(s.dev.rxbuf, 2)
        exp_crc == halse_se05x_calculate_crc(s.dev.rxbuf, SIZE_PROLOGUE + len)
        act_crc == Or((At(s.dev.rxbuf, SIZE_PROLOGUE + len) * 256) % 65536,
                      At(s.dev.rxbuf, SIZE_PROLOGUE + len + 1))
        pcb == At(s.dev.rxbuf, 1)
    IN  IF exp_crc # act_crc
        THEN [s |-> s, r |-> -1, again |-> FALSE]
        ELSE IF is_s_block_request(pcb)
        THEN IF And(pcb, CMD_TYPE_MASK) = CMD_WTX
             THEN With(halse_se05x_send_s_block(
                           [s EXCEPT !.h.wtx = @ + 1], CMD_RES, CMD_WTX,
                           <<At(s.dev.rxbuf, 3)>>, 1, "wtx", o),
                       LAMBDA wtx :
                           IF wtx.r # 0
                           THEN [s |-> wtx.s, r |-> -1, again |-> FALSE]
                           ELSE [s |-> wtx.s, r |-> 0, again |-> TRUE])
             ELSE [s |-> s, r |-> -1, again |-> FALSE]
        ELSE IF is_r_block_with_error(pcb) /\ And(pcb, 1) # 0
        THEN With(halse_se05x_resend([s EXCEPT !.h.err_r = @ + 1,
                                               !.h.snap.latch = TRUE], o),
                  LAMBDA rs :
                      IF rs.r # 0
                      THEN [s |-> rs.s, r |-> rs.r, again |-> FALSE]
                      ELSE [s |-> rs.s, r |-> 0, again |-> TRUE])
        ELSE [s |-> s, r |-> 0, again |-> FALSE]

recv_block_check(s, o) ==
    LET len == At(s.dev.rxbuf, 2)
        exp_crc == halse_se05x_calculate_crc(s.dev.rxbuf, SIZE_PROLOGUE + len)
        act_crc == Or((At(s.dev.rxbuf, SIZE_PROLOGUE + len) * 256) % 65536,
                      At(s.dev.rxbuf, SIZE_PROLOGUE + len + 1))
        pcb == At(s.dev.rxbuf, 1)
    IN  IF exp_crc # act_crc
        THEN [s |-> s, r |-> -1, again |-> FALSE]
        ELSE IF is_s_block_request(pcb)
        THEN IF And(pcb, CMD_TYPE_MASK) = CMD_WTX
             THEN With(halse_se05x_send_s_block(
                           [s EXCEPT !.h.wtx = @ + 1], CMD_RES, CMD_WTX,
                           <<At(s.dev.rxbuf, 3)>>, 1, "wtx", o),
                       LAMBDA wtx :
                           IF wtx.r # 0
                           THEN [s |-> wtx.s, r |-> -1, again |-> FALSE]
                           ELSE [s |-> wtx.s, r |-> 0, again |-> TRUE])
             ELSE [s |-> s, r |-> -1, again |-> FALSE]
        ELSE IF is_r_block_with_error(pcb)
        THEN With(halse_se05x_resend([s EXCEPT !.h.err_r = @ + 1,
                                               !.h.snap.latch = TRUE], o),
                  LAMBDA rs :
                      IF rs.r # 0
                      THEN [s |-> rs.s, r |-> rs.r, again |-> FALSE]
                      ELSE [s |-> rs.s, r |-> 0, again |-> TRUE])
        ELSE [s |-> s, r |-> 0, again |-> FALSE]

\* The return of recv_block: c is the result of recv_block_check, or of a
\* read that failed.
recv_block_tail(c, uo, o) ==
    IF c.again
    THEN [c.s EXCEPT !.pc = "recv"]
    ELSE after_recv(c.s, c.r, uo, o)

\* The two reads of recv_block without the check of LEN.
recv_block_read_any_len(s, blk, ro, ri) ==
    LET hdr == SIZE_PROLOGUE + SIZE_EPILOGUE
        rd == halse_se05x_read_i2c(s, blk, 0, hdr, ro)
        len == At(rd.s.dev.rxbuf, 2)
        rd2 == halse_se05x_read_i2c(rd.s, Rest(blk, ro, hdr), hdr, len, ri)
    IN  IF rd.r # 0
        THEN Res(rd.s, -1)
        ELSE IF len # 0
        THEN IF rd2.r # 0
             THEN Res(rd2.s, -1)
             ELSE Res(rd2.s, 0)
        ELSE Res(rd.s, 0)

\* The two reads of recv_block; the result is -1 where recv_block returns
\* -1 before it looks at the block.
recv_block_read(s, blk, ro, ri) ==
    LET hdr == SIZE_PROLOGUE + SIZE_EPILOGUE
        rd == halse_se05x_read_i2c(s, blk, 0, hdr, ro)
        len == At(rd.s.dev.rxbuf, 2)
        rd2 == halse_se05x_read_i2c(rd.s, Rest(blk, ro, hdr), hdr, len, ri)
    IN  IF rd.r # 0
        THEN Res(rd.s, -1)
        ELSE IF len > SIZE_INF_MAX
        THEN Res(rd.s, -1)
        ELSE IF len # 0
        THEN IF rd2.r # 0
             THEN Res(rd2.s, -1)
             ELSE Res(rd2.s, 0)
        ELSE Res(rd.s, 0)

\* blk is the block the device has ready, ro the outcome of the read of
\* prologue and epilogue size, ri the outcome of the read of the LEN
\* remaining bytes, uo the outcome of the sleep and o the outcome of the
\* write that may follow.
halse_se05x_recv_block(s, blk, ro, ri, uo, o) ==
    With(recv_block_read(s, blk, ro, ri), LAMBDA rd :
         recv_block_tail(IF rd.r # 0
                         THEN [s |-> rd.s, r |-> -1, again |-> FALSE]
                         ELSE recv_block_check(rd.s, o),
                         uo, o))

(***************************************************************************)
(* The facade operations from their entry to their first I2C read.         *)
(***************************************************************************)
GpioOutcomes == {"ok", "fail"}

halgpio_disable(s, go) ==
    IF ~s.dev.gpio_dev THEN Res(s, 0)
    ELSE IF go = "ok" THEN Res([s EXCEPT !.gpio_line = 0], 0)
    ELSE Res(s, -1)

halgpio_enable(s, go) ==
    IF ~s.dev.gpio_dev THEN Res(s, 0)
    ELSE IF go = "ok" THEN Res([s EXCEPT !.gpio_line = 1], 0)
    ELSE Res(s, -1)

halse_se05x_power_down(s, go) == halgpio_disable(s, go)

halse_se05x_hard_reset_dev(s, o) ==
    With(halse_se05x_send_s_block_noinf(s, CMD_REQ, CMD_RESET, o),
         LAMBDA w : IF w.r # 0
                    THEN Return(w.s, -1)
                    ELSE Await(w.s, "hard"))

halse_se05x_power_up(s, go, uo, o) ==
    IF s.dev.gpio_dev
    THEN LET e == halgpio_enable(s, go)
         IN  IF e.r # 0
             THEN Return(e.s, e.r)
             ELSE power_up_done(Event(e.s, "gpio_enable", 0), uo, o)
    ELSE halse_se05x_hard_reset_dev(s, o)

\* halse_se05x_open that does not wait after power_down.
open_without_sleep(s, gd, ud, ge, uo, o) ==
    LET pd == halse_se05x_power_down([s EXCEPT !.op = "open"], gd)
    IN  IF pd.r # 0
        THEN Return(pd.s, -1)
        ELSE halse_se05x_power_up(Event(pd.s, "power_down", 0), ge, uo, o)

\* halse_se05x_open, called by halse_open_se05x on the new session: gd and
\* ge are the outcomes of disabling and enabling the GPIO line, ud and uo
\* those of the sleeps after power_down and in power_up.
halse_se05x_open(s, gd, ud, ge, uo, o) ==
    LET pd == halse_se05x_power_down([s EXCEPT !.op = "open"], gd)
    IN  IF pd.r # 0
        THEN Return(pd.s, -1)
        ELSE IF usleep(ud) # 0
        THEN Return(Event(pd.s, "power_down", 0), -1)
        ELSE halse_se05x_power_up(
                 Event(Event(pd.s, "power_down", 0),
                       "sleep", PWT_ms * US_PER_MS), ge, uo, o)

\* A new call of a facade operation on the open session.
(***************************************************************************)
(* The ATR handed to the caller.                                           *)
(***************************************************************************)
RECURSIVE xor_loop(_, _, _, _)
xor_loop(buf, i, len, v) ==
    IF i >= len THEN v ELSE xor_loop(buf, i + 1, len, Xor(v, At(buf, i)))

\* buf is the sequence of the bytes from the address passed on.
halse_se05x_calculate_xor(buf, len) == xor_loop(buf, 0, len, 0)

atr_prologue == <<59, 240, 150, 0, 0, 128, 17, 254>>

\* dev->atr[i]: beyond the end of the allocation the read finds whatever
\* the heap holds there, the byte junk.
atr_byte(s, i, junk) == IF i < Len(s.dev.atr) THEN At(s.dev.atr, i) ELSE junk

\* The offset of HB_LEN in the cached ATR.
hb_len_offset(s, junk) ==
    With(1 + 5 + 1 + atr_byte(s, 1 + 5, junk) + 1, LAMBDA plp_len_at :
         plp_len_at + 1 + atr_byte(s, plp_len_at, junk))

\* The indices at which halse_se05x_get_atr reads dev->atr: DLLP_LEN,
\* PLP_LEN, HB_LEN and, unless HB_LEN is refused, the historical bytes.
get_atr_reads(s, junk) ==
    LET dllp_len_at == 1 + 5
        plp_len_at == dllp_len_at + 1 + atr_byte(s, dllp_len_at, junk) + 1
        off == hb_len_offset(s, junk)
        len_hb == atr_byte(s, off, junk)
    IN  {dllp_len_at, plp_len_at, off}
            \cup (IF len_hb > 15 THEN {} ELSE { off + k : k \in 1..len_hb })

\* halse_se05x_get_atr that computes TCK from TS on.
get_atr_tck_from_ts(s, junk) ==
    LET off == hb_len_offset(s, junk)
        len_hb == atr_byte(s, off, junk)
        i == Len(atr_prologue) + len_hb
        hb == Tabulate(LAMBDA k : atr_byte(s, off + k, junk), 1, len_hb)
        b1 == Store(s.rx_buf, 0, atr_prologue)
        b2 == Store(b1, 1, <<Or(At(b1, 1), len_hb)>>)
        b3 == Store(b2, Len(atr_prologue), hb)
        tck == halse_se05x_calculate_xor(SubSeq(b3, 1, i), i - 1)
    IN  IF len_hb > 15
        THEN Res(s, -1)
        ELSE Res([s EXCEPT !.rx_buf = Store(b3, i, <<tck>>),
                           !.rx_len = i + 1], 0)

\* halse_se05x_get_atr that lets 16 historical bytes pass.
get_atr_hb_limit_16(s, junk) ==
    LET off == hb_len_offset(s, junk)
        len_hb == atr_byte(s, off, junk)
        i == Len(atr_prologue) + len_hb
        hb == Tabulate(LAMBDA k : atr_byte(s, off + k, junk), 1, len_hb)
        b1 == Store(s.rx_buf, 0, atr_prologue)
        b2 == Store(b1, 1, <<Or(At(b1, 1), len_hb)>>)
        b3 == Store(b2, Len(atr_prologue), hb)
        tck == halse_se05x_calculate_xor(SubSeq(b3, 2, i), i - 1)
    IN  IF len_hb > 16
        THEN Res(s, -1)
        ELSE Res([s EXCEPT !.rx_buf = Store(b3, i, <<tck>>),
                           !.rx_len = i + 1], 0)

\* halse_se05x_get_atr: the caller's buffer is s.rx_buf and *len s.rx_len.
halse_se05x_get_atr(s, junk) ==
    LET off == hb_len_offset(s, junk)
        len_hb == atr_byte(s, off, junk)
        i == Len(atr_prologue) + len_hb
        hb == Tabulate(LAMBDA k : atr_byte(s, off + k, junk), 1, len_hb)
        b1 == Store(s.rx_buf, 0, atr_prologue)
        b2 == Store(b1, 1, <<Or(At(b1, 1), len_hb)>>)
        b3 == Store(b2, Len(atr_prologue), hb)
        tck == halse_se05x_calculate_xor(SubSeq(b3, 2, i), i - 1)
    IN  IF len_hb > 15
        THEN Res(s, -1)
        ELSE Res([s EXCEPT !.rx_buf = Store(b3, i, <<tck>>),
                           !.rx_len = i + 1], 0)

(***************************************************************************)
(* The operations of struct halse_dev.                                     *)
(***************************************************************************)
Call(s, name) ==
    [s EXCEPT !.op = name, !.calls = @ + 1, !.h.ns0 = s.dev.n_s]

\* The caller has taken the result of the operation.  Once the calls that
\* the environment disturbs are over, it has no disturbance left to make.
Taken(s) ==
    [s EXCEPT !.pc = "idle", !.op = "none", !.cont = "none", !.ret = 0,
              !.h = NoHist, !.a = NoArgs,
              !.tx_off = 0, !.rx_off = 0, !.rx_buf = <<>>, !.rx_len = 0,
              !.env = IF s.calls >= MaxNoisyCalls
                      THEN [@ EXCEPT !.wtx = MaxWtx, !.noise = MaxNoise]
                      ELSE @]

\* halse_se05x_xfer without the check of tx_len.
xfer_no_tx_len_check(s, args) ==
    LET s0 == [Call(s, "xfer") EXCEPT !.a = args, !.rx_len = args.cap]
    IN  IF args.tx_null \/ args.rx_null \/ args.rx_len_null
        THEN xfer_end(s0, -1)
        ELSE [s0 EXCEPT !.pc = "xfer_write"]

\* halse_se05x_xfer from its entry to the write loop.
halse_se05x_xfer(s, args) ==
    LET s0 == [Call(s, "xfer") EXCEPT !.a = args, !.rx_len = args.cap]
    IN  IF args.tx_null \/ args.tx_len = 0 \/ args.rx_null \/ args.rx_len_null
        THEN xfer_end(s0, -1)
        ELSE [s0 EXCEPT !.pc = "xfer_write"]

\* The write loop with the chain flag set whenever the block is full.
xfer_write_chain_when_full(s, o) ==
    LET left == s.a.tx_len - s.tx_off
        len == Min(SIZE_INF_MAX, left)
        chain == len = SIZE_INF_MAX
        buf == SubSeq(s.a.tx_buf, s.tx_off + 1, s.tx_off + len)
    IN  With(send_i_block_write(s, buf, len, chain, o),
             LAMBDA w :
                 IF w.r # 0
                 THEN xfer_end([w.s EXCEPT !.g.failed = TRUE], w.r)
                 ELSE IF chain
                 THEN Await(w.s, "token")
                 ELSE Await([w.s EXCEPT !.g.ok = @ + 1, !.tx_off = @ + len],
                            "read"))

\* One pass of the write loop of xfer, up to the return of the I2C write.
xfer_write(s, o) ==
    LET left == s.a.tx_len - s.tx_off
        len == Min(SIZE_INF_MAX, left)
        chain == (left - len) > 0
        buf == SubSeq(s.a.tx_buf, s.tx_off + 1, s.tx_off + len)
    IN  With(send_i_block_write(s, buf, len, chain, o),
             LAMBDA w :
                 IF w.r # 0
                 THEN xfer_end([w.s EXCEPT !.g.failed = TRUE], w.r)
                 ELSE IF chain
                 THEN Await(w.s, "token")
                 ELSE Await([w.s EXCEPT !.g.ok = @ + 1, !.tx_off = @ + len],
                            "read"))

(***************************************************************************)
(* The environment: what the caller passes and what the device sends.      *)
(***************************************************************************)
\* A block as the device puts it on the wire.
Blk(nad, pcb, inf) ==
    With(halse_se05x_calculate_crc(<<nad, pcb, Len(inf)>> \o inf,
                                   SIZE_PROLOGUE + Len(inf)),
         LAMBDA crc : <<nad, pcb, Len(inf)>> \o inf
                          \o <<crc \div 256, crc % 256>>)

BadCrc(b) == [b EXCEPT ![Len(b)] = Xor(@, 1)]

Pat(n, seed) == Tabulate(LAMBDA i : (seed + 3 * i) % 256, 1, n)

Atrs == { <<17, 34, 51, 68, 85>> }

\* The ATR of a device that answers a later warm reset differently.
LaterAtrs == { <<102>> }

DevIBlocks ==
    { Blk(HOST_NAD, 0, <<144, 0>>),
      Blk(HOST_NAD, 64, <<>>),
      Blk(HOST_NAD, 0, Pat(SIZE_INF_MAX, 1)),
      Blk(HOST_NAD, 32, <<97, 98>>),
      Blk(HOST_NAD, 96, <<170>>) }

DevRBlocks ==
    { Blk(HOST_NAD, 128, <<>>), Blk(HOST_NAD, 144, <<>>),
      Blk(HOST_NAD, 130, <<>>) }

DevSBlocks ==
    { Blk(HOST_NAD, 195, <<170>>),
      Blk(HOST_NAD, 192, <<>>),
      Blk(HOST_NAD, 230, <<>>) }
    \cup { Blk(HOST_NAD, 239, x) : x \in Atrs \cup LaterAtrs }
    \cup { Blk(HOST_NAD, 224, x) : x \in Atrs }
    \cup { Blk(HOST_NAD, 230, <<119, 136>>) }

DevBadBlocks ==
    { BadCrc(Blk(HOST_NAD, 0, <<144, 0>>)),
      Blk(0, 0, <<144, 0>>),
      Blk(0, 32, <<97, 98>>),
      <<HOST_NAD, 0, 255, 0, 0>> }

DevBlocks == DevIBlocks \cup DevRBlocks \cup DevSBlocks \cup DevBadBlocks

\* Whether the environment may disturb the session.
Disturbing == env.noise < MaxNoise

\* The blocks the device may send next: the bounds limit how many chained
\* I-blocks it sends in one response and how many WTX requests in a session,
\* and it sends an I-block of full size only where the host reads a response.
DevMenu ==
    { b \in DevBlocks :
        /\ (At(b, 2) = SIZE_INF_MAX) => cont = "read"
        /\ (is_i_block(At(b, 1)) /\ And(At(b, 1), CHAIN_FIELD) # 0)
              => Len(h.rx) < MaxRxChain
        /\ (At(b, 1) = Or(Or(S_BLOCK, CMD_REQ), CMD_WTX))
              => env.wtx < MaxWtx
        /\ (At(b, 1) = Or(S_BLOCK, CMD_RES) /\ At(b, 2) # 0) => cont = "warm"
        /\ (At(b, 1) = Or(Or(S_BLOCK, CMD_RES), CMD_RESET) /\ At(b, 2) # 0)
              => cont = "hard"
        /\ (\E x \in LaterAtrs : b = Blk(HOST_NAD, 239, x)) => op = "warm_reset"
        /\ (b \in DevBadBlocks) => Disturbing }

\* The session once the device has put block b up for reading.
Offer(s, b) ==
    [s EXCEPT !.env.wtx = IF At(b, 1) = Or(Or(S_BLOCK, CMD_REQ), CMD_WTX)
                          THEN @ + 1 ELSE @,
              !.env.noise = IF b \in DevBadBlocks THEN @ + 1 ELSE @]

\* The outcomes of the next I2C read and of the next I2C write.
ReadChoices == IF Disturbing THEN ReadOutcomes ELSE {"ok"}

SleepChoices == IF Disturbing THEN SleepOutcomes ELSE {"ok"}

WriteChoices == IF Disturbing THEN WriteOutcomes ELSE {"ok"}

TxLens ==
    { k * SIZE_INF_MAX + e : k \in 1..(MaxTxBlocks - 1), e \in {0, 1} }

TxBufs == { <<0, 164, 4, 0>> } \cup { Pat(n, 5) : n \in TxLens }

RxCaps == {0, 3, SIZE_INF_MAX + 2}

NumBlocks(n) == (n + SIZE_INF_MAX - 1) \div SIZE_INF_MAX

XferArgs ==
    { x \in { [tx_buf |-> b, tx_null |-> FALSE, tx_len |-> Len(b),
                rx_null |-> FALSE, rx_len_null |-> FALSE, cap |-> c] :
                  b \in TxBufs, c \in RxCaps } :
        x.tx_len >= SIZE_INF_MAX => x.cap = SIZE_INF_MAX + 2 }
    \cup
    { [tx_buf |-> <<>>, tx_null |-> TRUE, tx_len |-> 4, rx_null |-> FALSE,
       rx_len_null |-> FALSE, cap |-> 4],
      [tx_buf |-> <<0, 164, 4, 0>>, tx_null |-> FALSE, tx_len |-> 0,
       rx_null |-> FALSE, rx_len_null |-> FALSE, cap |-> 4],
      [tx_buf |-> <<0, 164, 4, 0>>, tx_null |-> FALSE, tx_len |-> 4,
       rx_null |-> TRUE, rx_len_null |-> FALSE, cap |-> 4],
      [tx_buf |-> <<0, 164, 4, 0>>, tx_null |-> FALSE, tx_len |-> 4,
       rx_null |-> FALSE, rx_len_null |-> TRUE, cap |-> 0] }

(***************************************************************************)
(* The specification.                                                      *)
(***************************************************************************)
Init ==
    /\ dev \in { NewDev(gpio) : gpio \in BOOLEAN }
    /\ gpio_line = 0
    /\ pc = "start"
    /\ op = "none"
    /\ cont = "none"
    /\ ret = 0
    /\ a = NoArgs
    /\ tx_off = 0
    /\ rx_off = 0
    /\ rx_buf = <<>>
    /\ rx_len = 0
    /\ h = NoHist
    /\ g = NoSends
    /\ calls = 0
    /\ env = [wtx |-> 0, noise |-> 0, heap |-> 0]
    /\ io = NoIo

\* A step whose successor F(o) depends on the outcome o of an I2C write
\* only if the step makes one, that is if it adds to the writes wr.
WithWrite(F(_), wr) ==
    With(F("ok"), LAMBDA n :
         \/ Becomes(n)
         \/ /\ n.h.wr # wr
            /\ \E o \in WriteChoices \ {"ok"} : Becomes(F(o)))

Open ==
    /\ pc = "start"
    /\ \E gd \in GpioOutcomes, ge \in GpioOutcomes,
          ud \in SleepChoices, uo \in SleepChoices :
          WithWrite(LAMBDA o : halse_se05x_open(Cur, gd, ud, ge, uo, o), h.wr)

Xfer ==
    /\ pc = "idle"
    /\ calls < MaxCalls
    /\ \E args \in XferArgs :
          /\ Len(g.sent) + NumBlocks(args.tx_len) <= MaxSends
          /\ Becomes(halse_se05x_xfer(Cur, args))

XferWrite ==
    /\ pc = "xfer_write"
    /\ \E o \in WriteChoices : Becomes(xfer_write(Cur, o))

\* The second read of recv_block happens only after a header read that
\* succeeded with a LEN of 1..SIZE_INF_MAX; "partial" needs a LEN above 1.
RecvBlock ==
    /\ pc = "recv"
    /\ \E blk \in DevMenu, ro \in ReadChoices :
          LET rd == halse_se05x_read_i2c(Cur, blk, 0,
                                         SIZE_PROLOGUE + SIZE_EPILOGUE, ro)
              len == At(rd.s.dev.rxbuf, 2)
              second == IF rd.r # 0 \/ len = 0 \/ len > SIZE_INF_MAX
                        THEN {"ok"}
                        ELSE { ri \in ReadChoices : ri = "partial" => len > 1 }
              sleeps == IF cont = "hard" THEN SleepChoices ELSE {"ok"}
          IN  \E ri \in second, uo \in sleeps :
                 WithWrite(LAMBDA o : halse_se05x_recv_block(
                                          Offer(Cur, blk), blk, ro, ri, uo, o),
                           h.wr)

WarmReset ==
    /\ pc = "idle"
    /\ calls < MaxCalls
    /\ \E o \in WriteChoices :
          Becomes(halse_se05x_warm_reset(Call(Cur, "warm_reset"), o))

PowerUp ==
    /\ pc = "idle"
    /\ calls < MaxCalls
    /\ \E go \in GpioOutcomes, uo \in SleepChoices :
          WithWrite(LAMBDA o : halse_se05x_power_up(Call(Cur, "power_up"),
                                                    go, uo, o), h.wr)

PowerDown ==
    /\ pc = "idle"
    /\ calls < MaxCalls
    /\ \E go \in GpioOutcomes :
          LET r == halse_se05x_power_down(Call(Cur, "power_down"), go)
          IN  Becomes(Return(r.s, r.r))

\* IFDHCloseChannel: close on the open session; no operation follows.
Close ==
    /\ pc = "idle"
    /\ Becomes([halse_se05x_close(Call(Cur, "close")) EXCEPT
                    !.pc = "closed", !.ret = 0])

Take ==
    /\ pc = "done"
    /\ Becomes(Taken(Cur))

Next ==
    \/ Open
    \/ Take
    \/ Xfer
    \/ XferWrite
    \/ RecvBlock
    \/ WarmReset
    \/ PowerUp
    \/ PowerDown
    \/ Close

Spec == Init /\ [][Next]_vars

\* xfer has been called and has not returned.
XferRunning == op = "xfer" /\ pc # "done"

\* A step of the running xfer is possible: its write loop can write, and
\* the device has a block for its receive.
XferCanStep ==
    /\ pc = "xfer_write" => xfer_write(Cur, "ok").env.noise <= MaxNoise
    /\ (XferRunning /\ pc = "recv")
          => \E blk \in DevMenu :
                 halse_se05x_recv_block(Offer(Cur, blk), blk, "ok", "ok",
                                        "ok", "ok").env.noise <= MaxNoise

\* The session with a driver that keeps running: xfer is one thread of
\* control, and every I2C transaction it starts returns (the with-retry
\* wrappers give up after max_retries attempts), so the running xfer takes
\* its next step.  This is weak fairness of the steps of the running xfer,
\* WF_vars(XferRunning /\ Next), written out by the definition of WF with
\* XferRunning for ENABLED <<XferRunning /\ Next>>_vars (XferCanStep).
SpecLive ==
    /\ Init
    /\ [][Next]_vars
    /\ ([]<>(~XferRunning) \/ []<><<XferRunning>>_vars)

(***************************************************************************)
(* halse_se05x_get_atr on its inputs: sessions that hold a cached ATR, and *)
(* a caller that passes a filled buffer of AtrCap bytes.                   *)
(***************************************************************************)
AtrCap == 32

MaxHb == 16

\* The ATR of the SE05x: PVER, VID, DLLP_LEN, DLLP, PLID, PLP_LEN, PLP,
\* HB_LEN = n, HB.
RealAtr(dllp, plp, n, hb) ==
    <<0>> \o <<160, 0, 0, 3, 150>> \o <<Len(dllp)>> \o dllp
          \o <<2>> \o <<Len(plp)>> \o plp \o <<n>> \o hb

Dllps == { <<>>, <<3, 232>> }

Plps == { <<>>, <<7>> }

HbLens == 0..MaxHb \cup {255}

\* The historical bytes of an ATR that announces n of them: a device that
\* announces more than MaxHb sends MaxHb.
Hb(n) == Pat(Min(n, MaxHb), 74)

RealAtrs == { RealAtr(d, p, n, Hb(n)) : d \in Dllps, p \in Plps, n \in HbLens }

AtrFill == Tabulate(LAMBDA i : 238, 1, AtrCap)

JunkBytes == {0, 5, 16}

InitAtr ==
    /\ dev \in { [NewDev(TRUE) EXCEPT !.atr = x, !.atr_set = TRUE,
                                       !.atr_len = Len(x)] :
                    x \in RealAtrs \cup Atrs \cup LaterAtrs }
    /\ gpio_line = 1
    /\ pc = "idle"
    /\ op = "none"
    /\ cont = "none"
    /\ ret = 0
    /\ a = NoArgs
    /\ tx_off = 0
    /\ rx_off = 0
    /\ rx_buf = AtrFill
    /\ rx_len \in {0, AtrCap}
    /\ h = NoHist
    /\ g = NoSends
    /\ calls = 0
    /\ env = [wtx |-> 0, noise |-> 0, heap |-> 1]
    /\ io = NoIo

GetAtr ==
    /\ pc = "idle"
    /\ calls < MaxCalls
    /\ \E junk \in JunkBytes :
          With(halse_se05x_get_atr(Call(Cur, "get_atr"), junk),
               LAMBDA r : Becomes(Return(r.s, r.r)))

NextAtr == GetAtr

SpecAtr == InitAtr /\ [][NextAtr]_vars

(***************************************************************************)
(* hali2c_read_with_retry and hali2c_write_with_retry, pass by pass of     *)
(* their loops, on a handle whose read and write return what the           *)
(* environment chooses.                                                    *)
(***************************************************************************)
MaxAttempts == 3

MaxLen == 2

is_nack(v) == v = -ENXIO \/ v = -ETIMEDOUT \/ v = -EREMOTEIO

\* What dev->read and dev->write return for len bytes: the number of bytes
\* transferred, or a negated errno.
CallResults(len) == 0..len \cup {-ENXIO, -ETIMEDOUT, -EREMOTEIO, -EIO}

\* The wrapper returns r.
io_return(s, r) == [s EXCEPT !.pc = "io_done", !.ret = r]

\* The end of a pass that has slept: counter++, and the test of the loop.
io_next_pass(s) ==
    IF s.io.counter + 1 < s.io.max_attempts
    THEN [s EXCEPT !.io.counter = @ + 1, !.io.slept = @ + 1]
    ELSE io_return([s EXCEPT !.io.counter = @ + 1, !.io.slept = @ + 1],
                   -ETIMEDOUT)

\* The entry of both wrappers.
with_retry_enter(s) ==
    IF ~s.io.dev THEN io_return(s, 0) ELSE [s EXCEPT !.pc = "io_loop"]

\* One pass of the loop of hali2c_read_with_retry: r is what dev->read
\* returns and uo the outcome of usleep.
read_with_retry_pass(s, r, uo) ==
    With([s EXCEPT !.io.res = Append(@, r)], LAMBDA s1 :
         IF r = s.io.len THEN io_return(s1, 0)
         ELSE IF is_nack(r)
         THEN IF usleep(uo) # 0
              THEN io_return(s1, usleep(uo))
              ELSE io_next_pass(s1)
         ELSE io_return(s1, r))

\* One pass of the loop of hali2c_write_with_retry.
write_with_retry_pass(s, r, uo) ==
    With([s EXCEPT !.io.res = Append(@, r)], LAMBDA s1 :
         IF r = s.io.len THEN io_return(s1, 0)
         ELSE IF is_nack(r)
         THEN IF usleep(uo) # 0
              THEN io_return(s1, EINTR)
              ELSE io_next_pass(s1)
         ELSE io_return(s1, r))

InitRetry ==
    /\ dev = NewDev(TRUE)
    /\ gpio_line = 1
    /\ pc = "io_call"
    /\ op = "none"
    /\ cont = "none"
    /\ ret = 0
    /\ a = NoArgs
    /\ tx_off = 0
    /\ rx_off = 0
    /\ rx_buf = <<>>
    /\ rx_len = 0
    /\ h = NoHist
    /\ g = NoSends
    /\ calls = 0
    /\ env = [wtx |-> 0, noise |-> 0, heap |-> 0]
    /\ io \in { [NoIo EXCEPT !.fn = fn, !.dev = d, !.len = len,
                             !.max_attempts = m] :
                  fn \in {"read", "write"}, d \in BOOLEAN,
                  len \in 0..MaxLen, m \in 0..MaxAttempts }

RetryEnter ==
    /\ pc = "io_call"
    /\ Becomes(with_retry_enter(Cur))

RetryRead ==
    /\ pc = "io_loop"
    /\ io.fn = "read"
    /\ \E r \in CallResults(io.len), uo \in SleepOutcomes :
          Becomes(read_with_retry_pass(Cur, r, uo))

RetryWrite ==
    /\ pc = "io_loop"
    /\ io.fn = "write"
    /\ \E r \in CallResults(io.len), uo \in SleepOutcomes :
          Becomes(write_with_retry_pass(Cur, r, uo))

NextRetry ==
    \/ RetryEnter
    \/ RetryRead
    \/ RetryWrite

SpecRetry == InitRetry /\ [][NextRetry]_vars

(***************************************************************************)
(* halse_open_se05x up to the end of halse_se05x_parse, token by token of  *)
(* the configuration string.  io counts the handles that hali2c_open and   *)
(* halgpio_open have returned and that nobody has closed.                  *)
(***************************************************************************)
MaxTokens == 3

\* What a token of the configuration string starts with.
Tokens == {"i2c:", "gpio:", "other"}

RECURSIVE Configs(_)
Configs(n) ==
    IF n = 0 THEN {<<>>}
    ELSE Configs(n - 1)
         \cup {Append(c, t) : c \in {x \in Configs(n - 1) : Len(x) = n - 1},
                              t \in Tokens}

\* halse_open_se05x once halse_se05x_parse has returned r.
open_se05x_parsed(s, r) ==
    IF r # 0
    THEN [s EXCEPT !.pc = "null", !.ret = r]
    ELSE [s EXCEPT !.pc = "parsed", !.ret = 0]

\* One pass of the loop of halse_se05x_parse over the token p; ok tells
\* whether hali2c_open or halgpio_open returns a handle.
halse_se05x_parse_token(s, ok) ==
    With(s.io.tokens[s.io.p], LAMBDA t :
         IF t = "i2c:"
         THEN With([s EXCEPT !.dev.i2c_dev = ok,
                             !.io.i2c_open = IF ok THEN @ + 1 ELSE @],
                   LAMBDA s1 :
                       IF ~ok THEN open_se05x_parsed(s1, -1)
                       ELSE [s1 EXCEPT !.io.p = @ + 1])
         ELSE IF t = "gpio:"
         THEN With([s EXCEPT !.dev.gpio_dev = ok,
                             !.io.gpio_open = IF ok THEN @ + 1 ELSE @],
                   LAMBDA s1 :
                       IF ~ok THEN open_se05x_parsed(s1, -1)
                       ELSE [s1 EXCEPT !.io.p = @ + 1])
         ELSE open_se05x_parsed(s, -1))

\* halse_se05x_parse after the last token.
halse_se05x_parse_end(s) ==
    IF ~s.dev.i2c_dev
    THEN IF s.dev.gpio_dev
         THEN open_se05x_parsed([s EXCEPT !.dev.gpio_dev = FALSE,
                                          !.io.gpio_open = @ - 1], -1)
         ELSE open_se05x_parsed(s, -1)
    ELSE open_se05x_parsed(s, 0)

InitParse ==
    /\ dev = [NewDev(FALSE) EXCEPT !.i2c_dev = FALSE]
    /\ gpio_line = 1
    /\ pc = "parse"
    /\ op = "none"
    /\ cont = "none"
    /\ ret = 0
    /\ a = NoArgs
    /\ tx_off = 0
    /\ rx_off = 0
    /\ rx_buf = <<>>
    /\ rx_len = 0
    /\ h = NoHist
    /\ g = NoSends
    /\ calls = 0
    /\ env = [wtx |-> 0, noise |-> 0, heap |-> 0]
    /\ io \in { [fn |-> "parse", tokens |-> c, p |-> 1, i2c_open |-> 0,
                 gpio_open |-> 0] : c \in Configs(MaxTokens) }

ParseToken ==
    /\ pc = "parse"
    /\ io.p <= Len(io.tokens)
    /\ \E ok \in BOOLEAN : Becomes(halse_se05x_parse_token(Cur, ok))

ParseEnd ==
    /\ pc = "parse"
    /\ io.p > Len(io.tokens)
    /\ Becomes(halse_se05x_parse_end(Cur))

NextParse ==
    \/ ParseToken
    \/ ParseEnd

SpecParse == InitParse /\ [][NextParse]_vars

(***************************************************************************)
(* The kernel GPIO backend: halgpio_open_kernel, and enable, disable and   *)
(* close on the device it returns.  io holds dev->gpio_fd, the state of    *)
(* the line handle in the kernel, the value of the line, the file          *)
(* descriptors passed to close() and the calls made.                       *)
(***************************************************************************)
MaxGpioOps == 5

\* The file descriptor of the line handle that GPIO_GET_LINEHANDLE_IOCTL
\* puts into req.fd.
LineFd == 4

\* How halgpio_kernel_open goes: open() of the chip fails, the ioctl fails,
\* the ioctl gives no descriptor, or all succeed.
GpioOpenOutcomes == {"no_chip", "no_line", "bad_fd", "ok"}

\* The err: label of halgpio_kernel_open and what follows it.
gpio_open_err(s, r) ==
    Res([s EXCEPT !.io.closed = @ \cup {s.io.gpio_fd},
                  !.io.line = IF s.io.gpio_fd = LineFd /\ @ = "held"
                              THEN "released" ELSE @,
                  !.io.gpio_fd = -1], r)

halgpio_kernel_open(s, o) ==
    IF o = "no_chip"
    THEN gpio_open_err(s, -1)
    ELSE IF o = "no_line"
    THEN Res(s, -1)
    ELSE IF o = "bad_fd"
    THEN gpio_open_err([s EXCEPT !.io.gpio_fd = -1], -1)
    ELSE gpio_open_err([s EXCEPT !.io.gpio_fd = LineFd, !.io.line = "held",
                                 !.io.value = 0], 0)

halgpio_open_kernel(s, o) ==
    With(halgpio_kernel_open(s, o), LAMBDA k :
         IF k.r # 0
         THEN [k.s EXCEPT !.pc = "null", !.ret = -1]
         ELSE [k.s EXCEPT !.pc = "gpio_idle", !.ret = 0])

\* halgpio_kernel_enable (v = 1) and halgpio_kernel_disable (v = 0); so is
\* the outcome of GPIOHANDLE_SET_LINE_VALUES_IOCTL.
gpio_set_value(s, name, v, so) ==
    With(IF s.io.gpio_fd = -1 THEN 0
         ELSE IF s.io.line # "held" \/ so # "ok" THEN -1
         ELSE 0,
         LAMBDA r :
             [s EXCEPT !.io.value = IF s.io.gpio_fd # -1 /\ r = 0 THEN v ELSE @,
                       !.io.ops = Append(@, [op |-> name, r |-> r]),
                       !.ret = r])

halgpio_kernel_enable(s, so) == gpio_set_value(s, "enable", 1, so)

halgpio_kernel_disable(s, so) == gpio_set_value(s, "disable", 0, so)

halgpio_kernel_close(s) ==
    IF s.io.gpio_fd >= 0
    THEN [s EXCEPT !.io.closed = @ \cup {s.io.gpio_fd},
                   !.io.line = "released", !.io.gpio_fd = -1,
                   !.pc = "gpio_closed"]
    ELSE [s EXCEPT !.pc = "gpio_closed"]

InitGpio ==
    /\ dev = NewDev(TRUE)
    /\ gpio_line = 0
    /\ pc = "gpio_start"
    /\ op = "none"
    /\ cont = "none"
    /\ ret = 0
    /\ a = NoArgs
    /\ tx_off = 0
    /\ rx_off = 0
    /\ rx_buf = <<>>
    /\ rx_len = 0
    /\ h = NoHist
    /\ g = NoSends
    /\ calls = 0
    /\ env = [wtx |-> 0, noise |-> 0, heap |-> 0]
    /\ io \in { [fn |-> "gpio", gpio_fd |-> 0, gpio_active_low |-> n,
                 line |-> "none", value |-> 0, closed |-> {}, ops |-> <<>>] :
                n \in BOOLEAN }

GpioOpen ==
    /\ pc = "gpio_start"
    /\ \E o \in GpioOpenOutcomes : Becomes(halgpio_open_kernel(Cur, o))

GpioEnable ==
    /\ pc = "gpio_idle"
    /\ Len(io.ops) < MaxGpioOps
    /\ \E so \in {"ok", "fail"} : Becomes(halgpio_kernel_enable(Cur, so))

GpioDisable ==
    /\ pc = "gpio_idle"
    /\ Len(io.ops) < MaxGpioOps
    /\ \E so \in {"ok", "fail"} : Becomes(halgpio_kernel_disable(Cur, so))

GpioClose ==
    /\ pc = "gpio_idle"
    /\ Becomes(halgpio_kernel_close(Cur))

NextGpio ==
    \/ GpioOpen
    \/ GpioEnable
    \/ GpioDisable
    \/ GpioClose

SpecGpio == InitGpio /\ [][NextGpio]_vars

(***************************************************************************)
(* halse_kerkey_xfer: the frames of the command go out one by one, and     *)
(* each response frame is announced by a header of two bytes.  io holds    *)
(* the bytes of the command still to send, the headers read and the number *)
(* of data reads.                                                          *)
(***************************************************************************)
I2C_FRAME_LENGTH_MAX == 254

MaxKkFrames == 3

\* The headers the device announces a frame with: WTX, the request for the
\* next frame of the command, and data of 2 or 3 bytes, chained or not.
KkHeaders == { <<0, 0>>, <<128, 0>>, <<0, 2>>, <<128, 2>>, <<1, 3>> }

KkTxLens == {4, I2C_FRAME_LENGTH_MAX + 1}

KkCaps == {0, 2, 4}

kerkey_return(s, r) == [s EXCEPT !.pc = "kk_done", !.ret = r]

\* From the entry of halse_kerkey_xfer to the send: label.
halse_kerkey_xfer(s, args) ==
    [s EXCEPT !.a = args, !.op = "kerkey_xfer", !.tx_off = 0, !.rx_off = 0,
              !.rx_len = 0, !.rx_buf = <<>>, !.io.tx_len = args.tx_len,
              !.pc = "kk_send"]

\* From the send: label to the read_res: label; wo is the outcome of the
\* I2C write.
kerkey_send(s, wo) ==
    With(Min(s.io.tx_len, I2C_FRAME_LENGTH_MAX), LAMBDA len :
         IF wo # "ok"
         THEN kerkey_return([s EXCEPT !.io.wr = Append(@, len)], -1)
         ELSE [s EXCEPT !.io.wr = Append(@, len), !.tx_off = @ + len,
                        !.io.tx_len = @ - len, !.pc = "kk_read_res"])

\* kerkey_read_res that cuts a frame down to the room left in rx_buf.
kerkey_read_res_truncates(s, hdr, ro, uo, rd) ==
    With(s.io.frames, LAMBDA old :
    With([s EXCEPT !.io.frames = Append(@, hdr)], LAMBDA s1 :
         LET chain == hdr[1] >= 128
             rlen == hdr[2] % 256
         IN  IF ro # "ok" THEN kerkey_return(s, -1)
             ELSE IF ~chain /\ rlen = 0
             THEN IF usleep(uo) # 0
                  THEN kerkey_return(s1, -1)
                  ELSE s1
             ELSE IF chain /\ rlen = 0
             THEN IF s1.io.tx_len # 0
                  THEN [s1 EXCEPT !.pc = "kk_send"]
                  ELSE kerkey_return(s1, -1)
             ELSE IF s1.rx_off + rlen > s1.a.cap
             THEN With(s1.a.cap - s1.rx_off, LAMBDA n :
                      kerkey_return([s1 EXCEPT !.io.rd = @ + 1,
                                               !.rx_buf = @ \o Pat(n, Len(old)),
                                               !.rx_off = @ + n,
                                               !.rx_len = @ + n], 0))
             ELSE IF rd # "ok"
             THEN kerkey_return([s1 EXCEPT !.io.rd = @ + 1], -1)
             ELSE With([s1 EXCEPT !.io.rd = @ + 1,
                                  !.rx_buf = @ \o Pat(rlen, Len(old)),
                                  !.rx_off = @ + rlen,
                                  !.rx_len = @ + rlen],
                       LAMBDA s2 : IF chain THEN s2
                                   ELSE kerkey_return(s2, 0))))

\* From the read_res: label on: hdr is the header the device sends, ro the
\* outcome of its read, uo the outcome of the sleep and rd the outcome of
\* the read of the data.
kerkey_read_res(s, hdr, ro, uo, rd) ==
    With(s.io.frames, LAMBDA old :
    With([s EXCEPT !.io.frames = Append(@, hdr)], LAMBDA s1 :
         LET chain == hdr[1] >= 128
             rlen == hdr[2] % 256
         IN  IF ro # "ok" THEN kerkey_return(s, -1)
             ELSE IF ~chain /\ rlen = 0
             THEN IF usleep(uo) # 0
                  THEN kerkey_return(s1, -1)
                  ELSE s1
             ELSE IF chain /\ rlen = 0
             THEN IF s1.io.tx_len # 0
                  THEN [s1 EXCEPT !.pc = "kk_send"]
                  ELSE kerkey_return(s1, -1)
             ELSE IF s1.rx_off + rlen > s1.a.cap
             THEN kerkey_return(s1, -1)
             ELSE IF rd # "ok"
             THEN kerkey_return([s1 EXCEPT !.io.rd = @ + 1], -1)
             ELSE With([s1 EXCEPT !.io.rd = @ + 1,
                                  !.rx_buf = @ \o Pat(rlen, Len(old)),
                                  !.rx_off = @ + rlen,
                                  !.rx_len = @ + rlen],
                       LAMBDA s2 : IF chain THEN s2
                                   ELSE kerkey_return(s2, 0))))

InitKerkey ==
    /\ dev = NewDev(FALSE)
    /\ gpio_line = 0
    /\ pc = "kk_idle"
    /\ op = "none"
    /\ cont = "none"
    /\ ret = 0
    /\ a = NoArgs
    /\ tx_off = 0
    /\ rx_off = 0
    /\ rx_buf = <<>>
    /\ rx_len = 0
    /\ h = NoHist
    /\ g = NoSends
    /\ calls = 0
    /\ env = [wtx |-> 0, noise |-> 0, heap |-> 0]
    /\ io = [fn |-> "kerkey", tx_len |-> 0, frames |-> <<>>, rd |-> 0,
             wr |-> <<>>]

KkXfer ==
    /\ pc = "kk_idle"
    /\ \E n \in KkTxLens, c \in KkCaps :
          Becomes(halse_kerkey_xfer(
                      Cur, [NoArgs EXCEPT !.tx_buf = Pat(n, 5), !.tx_len = n,
                                          !.cap = c]))

KkSend ==
    /\ pc = "kk_send"
    /\ \E wo \in {"ok", "fail"} : Becomes(kerkey_send(Cur, wo))

KkReadRes ==
    /\ pc = "kk_read_res"
    /\ Len(io.frames) < MaxKkFrames
    /\ \E hdr \in KkHeaders, ro \in {"ok", "fail"}, uo \in SleepOutcomes,
          rd \in {"ok", "fail"} :
          Becomes(kerkey_read_res(Cur, hdr, ro, uo, rd))

NextKerkey ==
    \/ KkXfer
    \/ KkSend
    \/ KkReadRes

SpecKerkey == InitKerkey /\ [][NextKerkey]_vars

(***************************************************************************)
(* halse_se05x_crc_and_send and halse_se05x_recv_block back to back: the   *)
(* block that the one writes is the block that the other reads.  The       *)
(* block to send, prologue and INF, is a.tx_buf.                           *)
(***************************************************************************)
\* Every value of the PCB.
Pcbs == 0..255

InfLens == {0, 1, 2, SIZE_INF_MAX}

InitCodec ==
    /\ dev = NewDev(TRUE)
    /\ gpio_line = 1
    /\ pc = "idle"
    /\ op = "none"
    /\ cont = "none"
    /\ ret = 0
    /\ a \in { [NoArgs EXCEPT !.tx_buf = <<SE05X_NAD, pcb, n>> \o Pat(n, pcb),
                              !.tx_len = SIZE_PROLOGUE + n] :
                  pcb \in Pcbs, n \in InfLens }
    /\ tx_off = 0
    /\ rx_off = 0
    /\ rx_buf = <<>>
    /\ rx_len = 0
    /\ h = NoHist
    /\ g = NoSends
    /\ calls = 0
    /\ env = [wtx |-> 0, noise |-> 0, heap |-> 0]
    /\ io = NoIo

\* The block is put into txbuf as the senders of the blocks do, and sent.
Encode ==
    /\ pc = "idle"
    /\ calls < MaxCalls
    /\ \E o \in WriteChoices :
          With(halse_se05x_crc_and_send(
                   [Call(Cur, "codec") EXCEPT
                        !.dev.txbuf = Store(@, 0, a.tx_buf)],
                   a.tx_len, "block", o),
               LAMBDA w : IF w.r # 0
                          THEN Becomes(Return(w.s, w.r))
                          ELSE Becomes(Await(w.s, "codec")))

\* halse_se05x_recv_block reads the block last written, up to its return
\* or to its tail call.
Decode ==
    /\ pc = "recv"
    /\ cont = "codec"
    /\ With(recv_block_read(Cur, h.wr[Len(h.wr)].blk, "ok", "ok"),
            LAMBDA rd :
                IF rd.r # 0
                THEN Becomes(Return(rd.s, -1))
                ELSE With(recv_block_check(rd.s, "ok"), LAMBDA c :
                          IF c.again
                          THEN Becomes([c.s EXCEPT !.pc = "recv"])
                          ELSE Becomes(Return(c.s, c.r))))

NextCodec ==
    \/ Encode
    \/ Decode

SpecCodec == InitCodec /\ [][NextCodec]_vars


(***************************************************************************)
(* Readings of the histories.                                              *)
(***************************************************************************)
\* The I-blocks among the I2C writes wr, and the number of retransmissions.
IBlocks(wr) == SelectSeq(wr, LAMBDA e : e.kind = "i_block")

Resends(wr) == Len(SelectSeq(wr, LAMBDA e : e.kind = "resend"))

\* Bit number n of the byte v.
Bit(v, n) == And(v \div (2 ^ n), 1)

\* The arguments the sanity check of xfer refuses.
BadArgs == a.tx_null \/ a.tx_len = 0 \/ a.rx_null \/ a.rx_len_null

\* xfer has returned.
XferDone == op = "xfer" /\ pc = "done"

\* The read loop of xfer has received the last I-block of the response.
Completed ==
    /\ Len(h.rx) > 0
    /\ is_i_block(h.rx[Len(h.rx)].pcb)
    /\ Bit(h.rx[Len(h.rx)].pcb, 5) = 0

\* A token-passing block that send_i_block accepts: an R-block with EE = 0
\* whose N(R) is the N(S) of the session.
GoodToken(t) ==
    /\ is_r_block(t.pcb)
    /\ And(t.pcb, CMD_ERROR_MASK) = 0
    /\ Bit(t.pcb, 4) = t.n_s

(***************************************************************************)
(* The table of LUNs of halse.c behind IFDHCreateChannelByName and         *)
(* IFDHCloseChannel.  io holds the table (slot i of the C array is element *)
(* i + 1), the number of LUNs that were given a slot, the number of        *)
(* devices created, and the last call with its result.  A device is TRUE where     *)
(* the C pointer is not NULL.                                              *)
(***************************************************************************)
MAX_SE_DEVICES == 16

MaxGoodOpens == 1

\* The caller numbers its LUNs from 0 on; one more than the table has slots.
Luns == 0..MAX_SE_DEVICES

\* NULL, a string halse_parse refuses, and one it makes a device from.
LunConfigs == {"null", "bad", "good"}

\* The array in static storage: every field is zero.
NoSlot == [in_use |-> FALSE, lun |-> 0, dev |-> FALSE]

\* The first index of the loop over the table at which it stops.
FirstOf(S) == CHOOSE i \in S : \A j \in S : i <= j

halse_parse(config) == config = "good"

halse_exists(s, lun) ==
    \E i \in 1..MAX_SE_DEVICES : s.io.tab[i].in_use /\ s.io.tab[i].lun = lun

halse_open(s, lun, config) ==
    LET free == { i \in 1..MAX_SE_DEVICES : ~s.io.tab[i].in_use }
    IN  IF config = "null"
        THEN Res(s, FALSE)
        ELSE IF free = {}
        THEN Res(s, FALSE)
        ELSE Res([s EXCEPT !.io.tab[FirstOf(free)] =
                               [in_use |-> TRUE, lun |-> lun,
                                dev |-> halse_parse(config)]],
                 halse_parse(config))

halse_get(s, lun) ==
    LET hit == { i \in 1..MAX_SE_DEVICES :
                   s.io.tab[i].in_use /\ s.io.tab[i].lun = lun }
    IN  IF hit = {} THEN FALSE ELSE s.io.tab[FirstOf(hit)].dev

halse_free(s, lun) ==
    LET hit == { i \in 1..MAX_SE_DEVICES : s.io.tab[i].lun = lun }
    IN  IF hit = {} THEN s
        ELSE [s EXCEPT !.io.tab[FirstOf(hit)].in_use = FALSE]

\* The call is recorded with the answer of halse_exists and its result.
IFDHCreateChannelByName(s, lun, config) ==
    LET called(t, r) ==
            [t EXCEPT !.io.last = [call |-> "create", lun |-> lun,
                                   config |-> config,
                                   existed |-> halse_exists(s, lun),
                                   r |-> r],
                      !.io.seen = IF lun = @ /\ t.io.tab # s.io.tab
                                  THEN @ + 1 ELSE @,
                      !.io.good = IF r = "IFD_SUCCESS" THEN @ + 1 ELSE @]
    IN  IF halse_exists(s, lun)
        THEN called(s, "IFD_NO_SUCH_DEVICE")
        ELSE With(halse_open(s, lun, config), LAMBDA o :
                  IF ~o.r
                  THEN called(o.s, "IFD_NO_SUCH_DEVICE")
                  ELSE called(o.s, "IFD_SUCCESS"))

IFDHCloseChannel(s, lun) ==
    LET called(t, r) ==
            [t EXCEPT !.io.last = [call |-> "close", lun |-> lun,
                                   config |-> "null",
                                   existed |-> halse_exists(s, lun),
                                   r |-> r]]
    IN  IF ~halse_get(s, lun)
        THEN called(s, "IFD_NO_SUCH_DEVICE")
        ELSE called(halse_free(s, lun), "IFD_SUCCESS")

InitLun ==
    /\ dev = NewDev(TRUE)
    /\ gpio_line = 0
    /\ pc = "lun_idle"
    /\ op = "none"
    /\ cont = "none"
    /\ ret = 0
    /\ a = NoArgs
    /\ tx_off = 0
    /\ rx_off = 0
    /\ rx_buf = <<>>
    /\ rx_len = 0
    /\ h = NoHist
    /\ g = NoSends
    /\ calls = 0
    /\ env = [wtx |-> 0, noise |-> 0, heap |-> 0]
    /\ io = [fn |-> "lun", tab |-> [i \in 1..MAX_SE_DEVICES |-> NoSlot],
             seen |-> 0, good |-> 0,
             last |-> [call |-> "none", lun |-> 0, config |-> "null",
                       existed |-> FALSE, r |-> "none"]]

\* The caller uses a LUN that was given a slot before, or the next one.
LunCreate ==
    /\ pc = "lun_idle"
    /\ \E lun \in Luns, config \in LunConfigs :
          /\ lun <= io.seen
          /\ config = "good" => io.good < MaxGoodOpens
          /\ Becomes(IFDHCreateChannelByName(Cur, lun, config))

LunClose ==
    /\ pc = "lun_idle"
    /\ \E lun \in Luns :
          /\ lun < io.seen
          /\ Becomes(IFDHCloseChannel(Cur, lun))

NextLun ==
    \/ LunCreate
    \/ LunClose

SpecLun == InitLun /\ [][NextLun]_vars

(***************************************************************************)
(* C1: as long as every send_i_block since the state was last cleared has  *)
(* succeeded, bit 6 of the PCB of the k-th I-block sent since then is      *)
(* (k - 1) mod 2, and once the N-th call has returned N(S) is N mod 2.     *)
(***************************************************************************)
NsToggles ==
    ~g.failed =>
        /\ \A k \in 1..Len(g.sent) : Bit(g.sent[k], 6) = (k - 1) % 2
        /\ dev.n_s = Len(g.sent) % 2
        /\ ~(pc = "recv" /\ cont = "token") => Len(g.sent) = g.ok

\* Three I-blocks sent by two xfer calls, all successful.
NsTogglesWitness ==
    /\ ~g.failed
    /\ g.ok = 3
    /\ calls = 2
    /\ Len(g.sent) = 3
    /\ dev.n_s = 1

(***************************************************************************)
(* C2: in every xfer the first R-block with error received causes exactly  *)
(* one retransmission, and a second one makes xfer return -ETIMEDOUT       *)
(* without another retransmission, whatever ran on the session before.     *)
(***************************************************************************)
OneRetransmitPerXfer ==
    op = "xfer" =>
        /\ h.err_r >= 1 => Resends(h.wr) = 1
        /\ h.err_r >= 2 => pc = "done" /\ ret = -ETIMEDOUT

\* The first R-block with error of an xfer is refused its retransmission.
RetransmitRefusedWitness ==
    /\ XferDone
    /\ h.err_r = 1
    /\ Resends(h.wr) = 0
    /\ ret = -ETIMEDOUT

(***************************************************************************)
(* C3: while recv_block waits for the answer to a block, N(S), N(R), the   *)
(* retransmit latch and the cached transmit block are what they were when  *)
(* the block was sent (the latch set by a retransmission), however many    *)
(* WTX requests have been answered; and every retransmission repeats the   *)
(* block that was sent, not a WTX response.                                *)
(***************************************************************************)
WtxTransparent ==
    /\ pc = "recv" =>
          /\ dev.n_s = h.snap.n_s
          /\ dev.n_r = h.snap.n_r
          /\ dev.txretransmit = h.snap.latch
          /\ SubSeq(dev.txbuf, 1, dev.txlen) = h.snap.tx
    /\ \A k \in 1..Len(h.wr) :
          h.wr[k].kind = "resend" =>
              \E j \in 1..(k - 1) :
                 /\ h.wr[j].kind \notin {"wtx", "resend"}
                 /\ \A m \in (j + 1)..(k - 1) :
                       h.wr[m].kind \in {"wtx", "resend"}
                 /\ h.wr[k].pcb = h.wr[j].pcb
                 /\ h.wr[k].len = h.wr[j].len

\* A WTX response has been retransmitted in place of the block sent.
WtxResentWitness ==
    /\ op = "xfer"
    /\ h.wtx = 1
    /\ Len(h.wr) = 3
    /\ h.wr[1].kind = "i_block"
    /\ h.wr[3].kind = "resend"
    /\ h.wr[3].pcb = Or(Or(S_BLOCK, CMD_RES), CMD_WTX)

(***************************************************************************)
(* C4: when the block that recv_block returns to the read loop of xfer is  *)
(* not an I-block, xfer returns an error.                                  *)
(***************************************************************************)
ReadLoopNeedsIBlock ==
    (XferDone /\ Len(h.rx) > 0 /\ ~is_i_block(h.rx[Len(h.rx)].pcb))
        => ret # 0

\* xfer has returned 0 after an R-block without error as the response.
ReadLoopRBlockWitness ==
    /\ XferDone
    /\ Len(h.rx) = 1
    /\ is_r_block(h.rx[1].pcb)
    /\ ret = 0

(***************************************************************************)
(* C5: xfer never writes more than the caller's capacity to the caller's   *)
(* buffer; when the response received is longer than the capacity, xfer    *)
(* returns 0, *rx_len is the capacity and the buffer holds the first       *)
(* capacity bytes of the concatenated INF fields.                          *)
(***************************************************************************)
Truncates ==
    /\ op = "xfer" =>
          /\ Len(rx_buf) <= a.cap
          /\ rx_off <= a.cap
    /\ (XferDone /\ Completed /\ a.cap < Len(h.rx_inf)) =>
          /\ ret = 0
          /\ rx_len = a.cap
          /\ rx_buf = SubSeq(h.rx_inf, 1, a.cap)

\* Two I-blocks of two INF bytes each received into a buffer of three.
TruncatesWitness ==
    /\ XferDone
    /\ Completed
    /\ a.cap = 3
    /\ Len(h.rx) = 2
    /\ Len(h.rx_inf) = 4
    /\ rx_len = 3

(***************************************************************************)
(* C6: when xfer has returned, with or without an error, txbuf and rxbuf   *)
(* are all zero, txlen is 0 and the retransmit latch is false.             *)
(***************************************************************************)
BuffersCleared ==
    XferDone =>
        /\ dev.txbuf = ZeroBuf
        /\ dev.rxbuf = ZeroBuf
        /\ dev.txlen = 0
        /\ ~dev.txretransmit

\* xfer has failed after it had retransmitted a block.
BuffersClearedWitness ==
    /\ XferDone
    /\ ret # 0
    /\ h.err_r = 1
    /\ Resends(h.wr) = 1
    /\ h.rd > 0

(***************************************************************************)
(* C7 (amended): xfer refuses a null tx buffer, a tx length of 0, a null   *)
(* rx buffer and a null rx length pointer with an error, before any I2C    *)
(* transaction and with N(S) unchanged; a receive capacity of 0 passed     *)
(* through valid pointers is not refused: the exchange runs, and a         *)
(* successful one reports 0 bytes.                                         *)
(***************************************************************************)
RejectsBadArgs ==
    /\ (op = "xfer" /\ BadArgs) =>
          /\ pc = "done"
          /\ ret # 0
          /\ h.wr = <<>>
          /\ h.rd = 0
          /\ dev.n_s = h.ns0
    /\ (op = "xfer" /\ ~BadArgs /\ a.cap = 0) =>
          /\ pc = "done" => Len(h.wr) > 0
          /\ (pc = "done" /\ ret = 0) => (rx_len = 0 /\ rx_buf = <<>>)

\* A tx length of 0 refused by a session whose N(S) is 1.
RejectsBadArgsWitness ==
    /\ XferDone
    /\ a.tx_len = 0
    /\ ret = -1
    /\ h.ns0 = 1
    /\ dev.n_s = 1

\* C7 as the claim states it: a receive capacity of 0 is refused as well.
RejectsZeroCapacity ==
    (op = "xfer" /\ (BadArgs \/ a.cap = 0)) =>
        /\ pc = "done"
        /\ ret # 0
        /\ h.wr = <<>>
        /\ h.rd = 0
        /\ dev.n_s = h.ns0

(***************************************************************************)
(* C8: the k-th I-block the write loop of xfer sends for a tx length L     *)
(* carries 254 INF bytes with the chain bit set if k < ceil(L / 254), and  *)
(* the remaining 1..254 bytes with the chain bit clear if k = ceil(L /     *)
(* 254); the INF fields sent are the tx buffer up to there; and when the   *)
(* write loop is left for the read loop, ceil(L / 254) I-blocks were sent  *)
(* and their INF fields are the tx buffer.                                 *)
(***************************************************************************)
WriteLoopChains ==
    (op = "xfer" /\ ~BadArgs) =>
        LET ib == IBlocks(h.wr)
            n == NumBlocks(a.tx_len)
            last == a.tx_len - SIZE_INF_MAX * (n - 1)
        IN  /\ Len(ib) <= n
            /\ last \in 1..SIZE_INF_MAX
            /\ \A k \in 1..Len(ib) :
                  /\ ib[k].len = SIZE_PROLOGUE + SIZE_EPILOGUE
                                   + (IF k < n THEN SIZE_INF_MAX ELSE last)
                  /\ Bit(ib[k].pcb, 5) = (IF k < n THEN 1 ELSE 0)
            /\ h.tx_inf = SubSeq(a.tx_buf, 1,
                                 Min(a.tx_len, SIZE_INF_MAX * Len(ib)))
            /\ cont = "read" => (Len(ib) = n /\ h.tx_inf = a.tx_buf)

\* 255 bytes sent as two I-blocks, and the read loop entered.
WriteLoopChainsWitness ==
    /\ op = "xfer"
    /\ cont = "read"
    /\ a.tx_len = SIZE_INF_MAX + 1
    /\ Len(IBlocks(h.wr)) = 2
    /\ \A k \in 1..Len(h.wr) : h.wr[k].o = "ok"

(***************************************************************************)
(* C9: when xfer has returned 0 and the INF fields received by the read    *)
(* loop fit the capacity, the caller's buffer holds their concatenation    *)
(* and *rx_len is the sum of their lengths.                                *)
(***************************************************************************)
ReceivesConcatenation ==
    (XferDone /\ ret = 0 /\ Len(h.rx_inf) <= a.cap) =>
        /\ rx_buf = h.rx_inf
        /\ rx_len = Len(h.rx_inf)

\* The response `90 00` in one I-block.
ReceivesStatusWordWitness ==
    /\ XferDone
    /\ ret = 0
    /\ Len(h.rx) = 1
    /\ h.rx_inf = <<144, 0>>
    /\ rx_buf = <<144, 0>>
    /\ rx_len = 2

(***************************************************************************)
(* C10: send_i_block goes on after a token-passing block only if the block *)
(* is an R-block with EE = 0 whose N(R) is the toggled N(S); after any     *)
(* other token-passing block xfer has returned an error and has sent no    *)
(* further I-block.                                                        *)
(***************************************************************************)
TokenChecked ==
    op = "xfer" =>
        \A k \in 1..Len(h.tok) :
            /\ Len(IBlocks(h.wr)) >= k
            /\ h.tok[k].n_s = 1 - Bit(IBlocks(h.wr)[k].pcb, 6)
            /\ IF GoodToken(h.tok[k])
               THEN tx_off >= SIZE_INF_MAX * k
               ELSE /\ k = Len(h.tok)
                    /\ pc = "done"
                    /\ ret # 0
                    /\ Len(IBlocks(h.wr)) = k
                    /\ tx_off = SIZE_INF_MAX * (k - 1)

\* An R-block whose N(R) is 0, where N(S) is 1, has failed the xfer.
TokenCheckedWitness ==
    /\ XferDone
    /\ Len(h.tok) = 1
    /\ h.tok[1].pcb = R_BLOCK
    /\ h.tok[1].n_s = 1
    /\ ret # 0
    /\ Len(IBlocks(h.wr)) = 1

(***************************************************************************)
(* C11: in the read loop of xfer, after each received I-block whose chain  *)
(* bit is set exactly one block is written before the next read, an        *)
(* R-block with LEN = 0, EE = 0 and N(R) = N(S) of that I-block XOR 1      *)
(* (PCB 0x90 after PCB 0x20); after an I-block whose chain bit is clear    *)
(* nothing is written and xfer has returned.                               *)
(***************************************************************************)
\* The writes made after the block read as the j-th of the read loop and
\* before any further read.
WritesAfter(j) == SelectSeq(h.wr, LAMBDA e : e.rd = h.rx[j].rd)

RBlockAfterChainedIBlock ==
    op = "xfer" =>
        \A j \in 1..Len(h.rx) :
            is_i_block(h.rx[j].pcb) =>
                IF Bit(h.rx[j].pcb, 5) = 1
                THEN /\ Len(WritesAfter(j)) = 1
                     /\ WritesAfter(j)[1].kind = "r_block"
                     /\ WritesAfter(j)[1].len = SIZE_PROLOGUE + SIZE_EPILOGUE
                     /\ SubSeq(WritesAfter(j)[1].blk, 1, SIZE_PROLOGUE)
                           = <<SE05X_NAD,
                               R_BLOCK + 16 * Xor(Bit(h.rx[j].pcb, 6), 1), 0>>
                     /\ h.rx[j].pcb = 32 => WritesAfter(j)[1].pcb = 144
                     /\ (pc = "recv" \/ j < Len(h.rx))
                           => WritesAfter(j)[1].r = 0
                ELSE /\ j = Len(h.rx)
                     /\ pc = "done"
                     /\ \A k \in 1..Len(h.wr) : h.wr[k].rd < h.rx[j].rd

\* A response of two I-blocks, the first with PCB 0x20, acknowledged by the
\* R-block with PCB 0x90.
RBlockAfterChainedIBlockWitness ==
    /\ XferDone
    /\ ret = 0
    /\ Len(h.rx) = 2
    /\ h.rx[1].pcb = 32
    /\ Bit(h.rx[2].pcb, 5) = 0
    /\ is_i_block(h.rx[2].pcb)
    /\ \E k \in 1..Len(h.wr) : /\ h.wr[k].kind = "r_block"
                               /\ h.wr[k].pcb = 144
                               /\ h.wr[k].rd = h.rx[1].rd

(***************************************************************************)
(* C12: when an R-block with non-zero EE answers an I-block and the        *)
(* retransmit latch is clear, the resend writes byte for byte the I-block  *)
(* last written, and of the session it changes nothing but the latch:      *)
(* N(S), N(R), txbuf and txlen stay (the receive buffer holds the R-block  *)
(* that was read).                                                         *)
(***************************************************************************)
\* A step in which recv_block has answered the last write, an I-block, by
\* a resend.
ResendsIBlock ==
    /\ Len(h.wr) > 0
    /\ h.wr[Len(h.wr)].kind = "i_block"
    /\ Len(h'.wr) = Len(h.wr) + 1
    /\ h'.wr[Len(h'.wr)].kind = "resend"

ResendIsVerbatimStep ==
    ResendsIBlock =>
        /\ ~dev.txretransmit
        /\ h'.err_r = h.err_r + 1
        /\ h'.wr[Len(h'.wr)].blk = h.wr[Len(h.wr)].blk
        /\ h'.wr[Len(h'.wr)].blk = SubSeq(dev.txbuf, 1, dev.txlen)
        /\ h'.wr[Len(h'.wr)].len = h.wr[Len(h.wr)].len
        /\ h'.wr[Len(h'.wr)].r = 0
              => /\ pc' = "recv"
                 /\ is_r_block_with_error(At(dev'.rxbuf, 1))
                 /\ dev' = [dev EXCEPT !.txretransmit = TRUE,
                                       !.rxbuf = dev'.rxbuf]

ResendIsVerbatim == [][ResendIsVerbatimStep]_vars

\* An I-block of xfer has been written a second time, and the device is
\* awaited again.
ResendIsVerbatimWitness ==
    /\ op = "xfer"
    /\ pc = "recv"
    /\ Len(h.wr) = 2
    /\ h.wr[1].kind = "i_block"
    /\ h.wr[2].kind = "resend"
    /\ h.wr[2].r = 0
    /\ h.wr[2].blk = h.wr[1].blk
    /\ Len(h.wr[2].blk) > SIZE_PROLOGUE + SIZE_EPILOGUE
    /\ dev.txretransmit

(***************************************************************************)
(* C13: for every cached ATR laid out as PVER VID DLLP_LEN DLLP PLID       *)
(* PLP_LEN PLP HB_LEN HB with HB_LEN in 0..15, get_atr returns 0 and the   *)
(* length 9 + HB_LEN, with out[0] = 0x3B, out[1] = 0xF0 | HB_LEN,          *)
(* out[2..7] = 96 00 00 80 11 FE, then the historical bytes, then TCK =    *)
(* XOR of out[1] through out[7 + HB_LEN]; the rest of the buffer stays.    *)
(***************************************************************************)
\* get_atr has returned.
GetAtrDone == op = "get_atr" /\ pc = "done"

RECURSIVE XorAll(_)
XorAll(q) == IF q = <<>> THEN 0 ELSE XorBits(Head(q), XorAll(Tail(q)))

GetAtrRewrites ==
    \A d \in Dllps, p \in Plps, n \in 0..15 :
        (GetAtrDone /\ dev.atr = RealAtr(d, p, n, Hb(n))) =>
            /\ ret = 0
            /\ rx_len = 9 + n
            /\ At(rx_buf, 0) = 59
            /\ At(rx_buf, 1) = OrBits(240, n)
            /\ SubSeq(rx_buf, 3, 8) = <<150, 0, 0, 128, 17, 254>>
            /\ SubSeq(rx_buf, 9, 8 + n) = Hb(n)
            /\ At(rx_buf, 8 + n) = XorAll(SubSeq(rx_buf, 2, 8 + n))
            /\ SubSeq(rx_buf, 10 + n, AtrCap) = SubSeq(AtrFill, 10 + n, AtrCap)

\* The ATR with two bytes of DLLP, one of PLP and 15 historical bytes,
\* rewritten to 24 bytes.
GetAtrRewritesWitness ==
    /\ GetAtrDone
    /\ dev.atr = RealAtr(<<3, 232>>, <<7>>, 15, Hb(15))
    /\ ret = 0
    /\ rx_len = 24
    /\ At(rx_buf, 1) = 255
    /\ SubSeq(rx_buf, 9, 23) = Hb(15)

(***************************************************************************)
(* C14: if the HB_LEN byte of the cached ATR is greater than 15, get_atr   *)
(* returns an error and leaves the caller's buffer and length as they      *)
(* were.                                                                   *)
(***************************************************************************)
GetAtrRejectsLongHbStep ==
    \A d \in Dllps, p \in Plps, n \in HbLens :
        (GetAtrDone' /\ pc = "idle" /\ n > 15
                     /\ dev.atr = RealAtr(d, p, n, Hb(n))) =>
            /\ ret' = -1
            /\ rx_buf' = rx_buf
            /\ rx_len' = rx_len
            /\ dev' = dev

GetAtrRejectsLongHb == [][GetAtrRejectsLongHbStep]_vars

\* An ATR that announces 16 historical bytes has been refused, and the
\* caller's buffer holds what it held.
GetAtrRejectsLongHbWitness ==
    /\ GetAtrDone
    /\ dev.atr = RealAtr(<<3, 232>>, <<7>>, 16, Hb(16))
    /\ ret = -1
    /\ rx_buf = AtrFill
    /\ rx_len = AtrCap

(***************************************************************************)
(* C15: the bytes NAD PCB LEN INF CRC_hi CRC_lo that crc_and_send writes,  *)
(* read by recv_block as 5 bytes followed by LEN bytes, pass its CRC check *)
(* and leave the same PCB, LEN and INF in rxbuf, the INF from rxbuf[3] on, *)
(* for every PCB and for INF of 0 up to 254 bytes.                         *)
(***************************************************************************)
\* recv_block is about to read the block that crc_and_send has written.
Delivering == pc = "recv" /\ cont = "codec" /\ h.rd = 0

CrcRoundTripStep ==
    Delivering =>
        /\ SubSeq(dev'.rxbuf, 1, a.tx_len) = a.tx_buf
        /\ At(dev'.rxbuf, 1) = At(a.tx_buf, 1)
        /\ At(dev'.rxbuf, 2) = a.tx_len - SIZE_PROLOGUE
        /\ h'.rd = IF a.tx_len = SIZE_PROLOGUE THEN 1 ELSE 2
        /\ halse_se05x_calculate_crc(dev'.rxbuf, a.tx_len)
              = 256 * At(dev'.rxbuf, a.tx_len) + At(dev'.rxbuf, a.tx_len + 1)
        /\ (~is_s_block_request(At(a.tx_buf, 1))
               /\ ~is_r_block_with_error(At(a.tx_buf, 1)))
              => (pc' = "done" /\ ret' = 0)

CrcRoundTrip == [][CrcRoundTripStep]_vars

\* An I-block with 254 bytes of INF has come back whole.
CrcRoundTripWitness ==
    /\ op = "codec"
    /\ pc = "done"
    /\ ret = 0
    /\ h.rd = 2
    /\ a.tx_len = SIZE_PROLOGUE + SIZE_INF_MAX
    /\ At(a.tx_buf, 1) = 64
    /\ SubSeq(dev.rxbuf, 1, a.tx_len) = a.tx_buf

(***************************************************************************)
(* C16: halse_se05x_calculate_crc is the CRC-16/X.25 of the bytes (from    *)
(* 0xFFFF, each byte xored into the low byte and followed by 8 shifts to   *)
(* the right with xor of 0x8408 when the bit shifted out is set, then xor  *)
(* with 0xFFFF), its two bytes swapped, in 16 bits; of no bytes it is 0.   *)
(***************************************************************************)
RefShift(crc) ==
    IF crc % 2 = 1 THEN XorBits(crc \div 2, 33800) ELSE crc \div 2

RECURSIVE RefShifts(_, _)
RefShifts(crc, n) == IF n = 0 THEN crc ELSE RefShifts(RefShift(crc), n - 1)

\* The bytes q[lo] to q[hi] taken into crc, one after the other.
RECURSIVE RefCrc(_, _, _, _)
RefCrc(q, lo, hi, crc) ==
    IF hi < lo THEN crc
    ELSE IF hi = lo THEN RefShifts(XorBits(crc, q[lo]), 8)
    ELSE LET c == RefCrc(q, lo, (lo + hi) \div 2, crc)
         IN  IF c >= 0 THEN RefCrc(q, ((lo + hi) \div 2) + 1, hi, c) ELSE 0

\* The reference with its two bytes swapped.
RefX25Swapped(q) ==
    With(XorBits(RefCrc(q, 1, Len(q), 65535), 65535) % 65536, LAMBDA x :
         (x % 256) * 256 + (x \div 256))

CrcIsX25Swapped ==
    /\ halse_se05x_calculate_crc(<<>>, 0) = 0
    /\ halse_se05x_calculate_crc(<<49, 50, 51, 52, 53, 54, 55, 56, 57>>, 9)
          = 28304
    /\ Delivering =>
          \A n \in {1, 2, SIZE_PROLOGUE, a.tx_len} :
              halse_se05x_calculate_crc(dev.txbuf, n)
                  = RefX25Swapped(SubSeq(a.tx_buf, 1, n))

\* The CRC of a block of 257 bytes has been sent, high byte first.
CrcIsX25SwappedWitness ==
    /\ Delivering
    /\ a.tx_len = SIZE_PROLOGUE + SIZE_INF_MAX
    /\ dev.txlen = a.tx_len + SIZE_EPILOGUE
    /\ 256 * At(dev.txbuf, a.tx_len) + At(dev.txbuf, a.tx_len + 1)
          = RefX25Swapped(a.tx_buf)

(***************************************************************************)
(* C17: on a session that is being opened the warm reset writes the five   *)
(* bytes 5A CF 00 37 7F (S-block request SOFT_RESET, LEN = 0, CRC =        *)
(* 0x377F); once the reply A5 EF 05 11 22 33 44 55 <crc16> has been read   *)
(* the warm reset has succeeded and the cached ATR is 11 22 33 44 55 with  *)
(* length 5; the reply A5 E0 05 11 22 33 44 55 <crc16> is refused.         *)
(***************************************************************************)
\* The S-block requests written so far.
Requests == SelectSeq(h.wr, LAMBDA e : e.kind = "s_req")

\* The warm reset of halse_se05x_open awaits the reply, or has had it.
OpenWarm == op = "open" /\ cont = "warm"

\* recv_block has read the reply with the PCB pcb and the ATR atr whole,
\* and the warm reset of halse_se05x_open has returned.
OpenReplied(pcb, atr) ==
    /\ OpenWarm
    /\ pc \in {"done", "closed"}
    /\ SubSeq(dev.rxbuf, 1, Len(Blk(HOST_NAD, pcb, atr)))
          = Blk(HOST_NAD, pcb, atr)

AtrFetched ==
    /\ OpenWarm => /\ Len(Requests) > 0
                   /\ Requests[Len(Requests)].blk = <<90, 207, 0, 55, 127>>
    /\ OpenReplied(239, <<17, 34, 51, 68, 85>>)
          => /\ pc = "done"
             /\ ret = 0
             /\ dev.atr = <<17, 34, 51, 68, 85>>
             /\ dev.atr_len = 5
    /\ OpenReplied(224, <<17, 34, 51, 68, 85>>)
          => /\ pc = "closed"
             /\ ret = -1
             /\ ~dev.atr_set

\* The session is open with the ATR 11 22 33 44 55.
AtrFetchedWitness ==
    /\ OpenReplied(239, <<17, 34, 51, 68, 85>>)
    /\ Requests[Len(Requests)].blk = <<90, 207, 0, 55, 127>>
    /\ Requests[Len(Requests)].r = 0
    /\ ret = 0
    /\ dev.atr = <<17, 34, 51, 68, 85>>

\* The bytes as they are stated: the request 5A C0 00 7F 21, and the reply
\* with the PCB E0 accepted.
AtrFetchedWithPcbC0 ==
    /\ OpenWarm => /\ Len(Requests) > 0
                   /\ Requests[Len(Requests)].blk = <<90, 192, 0, 127, 33>>
    /\ OpenReplied(224, <<17, 34, 51, 68, 85>>)
          => /\ pc = "done"
             /\ ret = 0
             /\ dev.atr = <<17, 34, 51, 68, 85>>
             /\ dev.atr_len = 5

(***************************************************************************)
(* C18: halse_open_se05x does, in this order, power_down, a sleep of PWT   *)
(* (5 ms), power_up, which ends with a sleep of PWT, and then the          *)
(* SOFT_RESET exchange that fills the ATR cache; it writes no SOFT_RESET   *)
(* block before power_up has succeeded, and when a step fails the I2C and  *)
(* GPIO handles are closed and the open has failed.                        *)
(***************************************************************************)
\* The steps taken so far, by name.
Steps == [i \in 1..Len(h.ev) |-> h.ev[i].e]

IsPrefix(p, q) == Len(p) <= Len(q) /\ SubSeq(q, 1, Len(p)) = p

\* The steps of an open up to the return of power_up, with the GPIO line
\* and without.
OpenSteps ==
    { <<"power_down", "sleep", "gpio_enable", "sleep", "power_up">>,
      <<"power_down", "sleep", "sleep", "power_up">> }

\* The writes of SOFT_RESET requests.
SoftResets ==
    { k \in 1..Len(h.wr) :
        h.wr[k].pcb = Or(Or(S_BLOCK, CMD_REQ), CMD_SOFT_RESET) }

OpenInOrder ==
    op = "open" =>
        /\ \E q \in OpenSteps : IsPrefix(Steps, q)
        /\ \A i \in 1..Len(h.ev) : h.ev[i].e = "sleep" => h.ev[i].us = 5000
        /\ Len(h.wr) > 0 => (Len(h.ev) >= 2 /\ h.ev[2].wr = 0)
        /\ \A k \in SoftResets :
              /\ Steps \in OpenSteps
              /\ h.ev[Len(h.ev)].wr < k
        /\ pc = "recv" /\ cont = "warm" => SoftResets # {}
        /\ pc = "done" => /\ ret = 0
                          /\ SoftResets # {}
                          /\ dev.atr_set
                          /\ dev.atr = SubSeq(dev.rxbuf, SIZE_PROLOGUE + 1,
                                              SIZE_PROLOGUE + dev.atr_len)
                          /\ dev.i2c_dev
        /\ pc = "closed" => /\ ret = -1
                            /\ ~dev.i2c_dev
                            /\ ~dev.gpio_dev
                            /\ ~dev.atr_set
        /\ pc \in {"done", "closed", "recv"}

\* An open with the GPIO line has gone through all its steps.
OpenInOrderWitness ==
    /\ op = "open"
    /\ pc = "done"
    /\ ret = 0
    /\ Steps = <<"power_down", "sleep", "gpio_enable", "sleep", "power_up">>
    /\ SoftResets = {1}
    /\ gpio_line = 1
    /\ dev.atr_len = 5

(***************************************************************************)
(* C19: power_up on a session with a GPIO handle enables the line and      *)
(* writes no block to I2C; on a session without one it sends one S-block   *)
(* request of type RESET (PCB 0xC6, LEN 0), which recv_block may           *)
(* retransmit, and succeeds only on an S-block response of type RESET (PCB *)
(* 0xE6); a power_up that has succeeded leaves N(S) = N(R) = 0.            *)
(***************************************************************************)
\* power_up has returned 0.
PoweredUp == op = "power_up" /\ pc = "done" /\ ret = 0

WarmResetDone == op = "warm_reset" /\ pc = "done" /\ ret = 0

WarmResetCachesAtr ==
    op = "warm_reset" =>
        /\ Len(h.wr) > 0
        /\ h.wr[1].kind = "s_req"
        /\ h.wr[1].pcb = 207
        /\ (pc = "recv" /\ cont = "warm")
              => /\ h.snap.n_s = 0
                 /\ h.snap.n_r = 0
                 /\ dev.n_s = 0
                 /\ dev.n_r = 0
        /\ WarmResetDone
              => /\ At(dev.rxbuf, 1) = 239
                 /\ dev.atr_len = At(dev.rxbuf, 2)
                 /\ dev.atr = SubSeq(dev.rxbuf, SIZE_PROLOGUE + 1,
                                     SIZE_PROLOGUE + At(dev.rxbuf, 2))
                 /\ Len(dev.atr) = dev.atr_len
                 /\ env.heap = 1
                 /\ dev.n_s = 0
                 /\ dev.n_r = 0

\* A session whose N(S) was 1 has had its ATR 11 22 33 44 55 replaced by
\* the ATR 66.
WarmResetCachesAtrWitness ==
    /\ WarmResetDone
    /\ h.ns0 = 1
    /\ dev.atr = <<102>>
    /\ dev.atr_len = 1
    /\ env.heap = 1

(***************************************************************************)
(* C21: the hard reset exchange, by which power_up resets a session        *)
(* without GPIO line, never changes the cached ATR nor atr_len nor the     *)
(* allocation, whether it succeeds or fails and whatever INF the response  *)
(* carries.                                                                *)
(***************************************************************************)
\* A step of the hard reset: it sends the request, or it receives a block
\* for it.
HardResetStep == cont' = "hard" \/ (cont = "hard" /\ pc = "recv")

HardResetKeepsAtrStep ==
    HardResetStep =>
        /\ dev'.atr = dev.atr
        /\ dev'.atr_len = dev.atr_len
        /\ dev'.atr_set = dev.atr_set
        /\ env'.heap = env.heap

HardResetKeepsAtr == [][HardResetKeepsAtrStep]_vars

\* A hard reset whose response carried two bytes of INF has succeeded, and
\* the ATR is the one that was cached.
HardResetKeepsAtrWitness ==
    /\ PoweredUp
    /\ cont = "hard"
    /\ At(dev.rxbuf, 1) = 230
    /\ At(dev.rxbuf, 2) = 2
    /\ dev.atr = <<17, 34, 51, 68, 85>>
    /\ dev.atr_len = 5

(***************************************************************************)
(* C22: after close the I2C handle is closed, the GPIO handle is closed    *)
(* and the buffer of the cached ATR has been released: no allocation made  *)
(* by a warm reset is left.                                                *)
(***************************************************************************)
\* close has returned.
Closed == op = "close" /\ pc = "closed"

CloseReleasesAtr ==
    Closed =>
        /\ ~dev.i2c_dev
        /\ ~dev.gpio_dev
        /\ env.heap = 0

\* The session is closed, and the buffer of its ATR is still allocated.
CloseLeaksAtrWitness ==
    /\ Closed
    /\ ~dev.i2c_dev
    /\ ~dev.gpio_dev
    /\ dev.atr_set
    /\ env.heap = 1

(***************************************************************************)
(* C23: for every max_attempts >= 0 the with-retry wrappers call the       *)
(* underlying operation at most max_attempts times; they return 0 as soon  *)
(* as a call has transferred exactly len bytes, go on to another call only *)
(* after a call that reported NACK, and when every call reports NACK they  *)
(* return -ETIMEDOUT after exactly max_attempts calls.                     *)
(***************************************************************************)
\* The wrapper has returned.
IoDone == pc = "io_done"

\* Every call so far has reported NACK, and every sleep has succeeded.
PersistentNack ==
    /\ \A k \in 1..Len(io.res) : is_nack(io.res[k])
    /\ io.slept = Len(io.res)

RetriesAtMostMaxAttempts ==
    /\ Len(io.res) <= io.max_attempts
    /\ \A k \in 1..Len(io.res) :
          /\ k < Len(io.res) => is_nack(io.res[k])
          /\ io.res[k] = io.len => (k = Len(io.res) /\ IoDone /\ ret = 0)
    /\ (IoDone /\ io.dev /\ PersistentNack)
          => (ret = -ETIMEDOUT /\ Len(io.res) = io.max_attempts)

\* With max_attempts = 0 the operation has been called once.
CalledWithZeroAttemptsWitness ==
    /\ IoDone
    /\ io.dev
    /\ io.max_attempts = 0
    /\ Len(io.res) = 1
    /\ is_nack(io.res[1])
    /\ ret = -ETIMEDOUT

(***************************************************************************)
(* C24: a call that transfers n bytes with 0 <= n < len ends the wrapper   *)
(* at once with a non-zero result, so that on an open handle the wrapper   *)
(* returns 0 only when a call has transferred exactly len bytes.           *)
(***************************************************************************)
PartialTransferFails ==
    /\ \A k \in 1..Len(io.res) :
          (io.res[k] >= 0 /\ io.res[k] < io.len)
              => (k = Len(io.res) /\ IoDone /\ ret # 0)
    /\ (IoDone /\ io.dev /\ ret = 0)
          => (Len(io.res) > 0 /\ io.res[Len(io.res)] = io.len)

\* A call that transferred no byte of a non-empty buffer, and the wrapper
\* returned 0.
ZeroBytesReturnsZeroWitness ==
    /\ IoDone
    /\ io.dev
    /\ io.len > 0
    /\ io.res = <<0>>
    /\ ret = 0

(***************************************************************************)
(* C25: when halse_open_se05x returns NULL because the configuration       *)
(* string does not parse, every I2C and GPIO handle opened while parsing   *)
(* has been closed.                                                        *)
(***************************************************************************)
\* halse_open_se05x has returned NULL after halse_se05x_parse failed.
ParseFailed == pc = "null"

ParseFailureClosesHandles ==
    ParseFailed => (io.i2c_open = 0 /\ io.gpio_open = 0)

\* The GPIO specification fails after the I2C specification was opened,
\* and the I2C handle stays open.
ParseLeaksI2cWitness ==
    /\ ParseFailed
    /\ io.tokens = <<"i2c:", "gpio:">>
    /\ io.p = 2
    /\ io.i2c_open = 1
    /\ io.gpio_open = 0

(***************************************************************************)
(* C26: the retransmit latch is false when the session has been created    *)
(* and false right after every successful send of a new block, one that is *)
(* not a retransmission; it turns true only in a step in which an R-block  *)
(* with error makes halse_se05x_resend write the cached block again.       *)
(***************************************************************************)
\* halse_open_se05x has allocated the session and not yet opened it.
SessionCreated == pc = "start"

\* The last I2C write succeeded and sent a new block, and nothing has
\* happened since.
NewBlockSent ==
    /\ pc = "recv"
    /\ Len(h.wr) > 0
    /\ h.wr[Len(h.wr)].kind # "resend"
    /\ h.wr[Len(h.wr)].r = 0

LatchSetStep ==
    (~dev.txretransmit /\ dev'.txretransmit)
        => /\ h'.err_r = h.err_r + 1
           /\ Len(h'.wr) = Len(h.wr) + 1
           /\ h'.wr[Len(h'.wr)].kind = "resend"

LatchFollowsSends ==
    /\ [](SessionCreated => ~dev.txretransmit)
    /\ [](NewBlockSent => ~dev.txretransmit)
    /\ [][LatchSetStep]_vars

\* In one xfer on a fresh session the I-block was retransmitted, and the
\* block sent after it left the latch set.
LatchStaysSetWitness ==
    /\ NewBlockSent
    /\ op = "xfer"
    /\ h.ns0 = 0
    /\ calls = 2
    /\ h.err_r = 1
    /\ h.wr[1].kind = "i_block"
    /\ h.wr[2].kind = "resend"
    /\ Len(h.wr) = 3
    /\ dev.txretransmit

(***************************************************************************)
(* C27: for each WTX request received (PCB 0xC3) recv_block writes exactly *)
(* one S-block response with PCB 0xE3, LEN 1 and the first INF byte of the *)
(* request, before it reads again, and then keeps waiting; the blocks it   *)
(* returns to its caller are neither WTX requests nor R-blocks with error, *)
(* and it keeps waiting for no other block.  The request A5 C3 01 AA is    *)
(* answered with 5A E3 01 AA.                                              *)
(***************************************************************************)
WtxAnsweredStep ==
    /\ h'.wtx = h.wtx + 1
          => /\ Len(h'.wr) = Len(h.wr) + 1
             /\ LET e == h'.wr[Len(h'.wr)]
                IN  /\ e.kind = "wtx"
                    /\ e.pcb = 227
                    /\ e.len = SIZE_PROLOGUE + 1 + SIZE_EPILOGUE
                    /\ e.blk[1] = SE05X_NAD
                    /\ e.blk[3] = 1
                    /\ e.rd = h'.rd
                    /\ e.r = 0
                          => /\ pc' = "recv"
                             /\ cont' = cont
                             /\ op' = op
                             /\ h'.rx = h.rx
                             /\ h'.tok = h.tok
                             /\ At(dev'.rxbuf, 1) = 195
                             /\ e.blk[4] = At(dev'.rxbuf, 3)
    /\ (pc = "recv" /\ pc' = "recv" /\ cont' = cont
           /\ h'.rx = h.rx /\ h'.tok = h.tok)
          => (h'.wtx = h.wtx + 1 \/ h'.err_r = h.err_r + 1)
    /\ \A k \in 1..Len(h'.rx) :
          /\ h'.rx[k].pcb # 195
          /\ ~is_r_block_with_error(h'.rx[k].pcb)
    /\ \A k \in 1..Len(h'.tok) :
          /\ h'.tok[k].pcb # 195
          /\ ~is_r_block_with_error(h'.tok[k].pcb)

WtxAnswered == [][WtxAnsweredStep]_vars

WtxAnsweredWitness ==
    /\ pc = "recv"
    /\ op = "xfer"
    /\ h.wtx = 1
    /\ Len(h.wr) = 2
    /\ h.wr[2].kind = "wtx"
    /\ h.wr[2].r = 0
    /\ SubSeq(h.wr[2].blk, 1, 4) = <<90, 227, 1, 170>>
    /\ SubSeq(dev.rxbuf, 1, 4) = <<165, 195, 1, 170>>

(***************************************************************************)
(* C28: a received block whose CRC bytes differ from the CRC computed over *)
(* NAD, PCB, LEN and INF makes recv_block fail; on that path nothing is    *)
(* written to I2C, and N(S), N(R), the retransmit latch and the cached     *)
(* transmit block stay as they are.                                        *)
(***************************************************************************)
\* The blocks of the device with a CRC byte damaged on the wire.
BadCrcBlocks ==
    { BadCrc(b) : b \in DevIBlocks \cup DevRBlocks \cup DevSBlocks }
    \cup { [b EXCEPT ![Len(b) - 1] = Xor(@, 128)] :
              b \in DevRBlocks \cup DevSBlocks }

\* The CRC bytes of the block in buf differ from the CRC computed.
CrcMismatch(buf) ==
    LET len == At(buf, 2)
    IN  halse_se05x_calculate_crc(buf, SIZE_PROLOGUE + len)
            # At(buf, SIZE_PROLOGUE + len) * 256
                  + At(buf, SIZE_PROLOGUE + len + 1)

\* recv_block, up to its return, on a block with a damaged CRC.
BadCrcFailsQuietly ==
    pc = "recv" =>
        \A blk \in BadCrcBlocks :
            With(recv_block_read(Cur, blk, "ok", "ok"), LAMBDA rd :
                 With(recv_block_check(rd.s, "ok"), LAMBDA c :
                      /\ rd.r = 0
                      /\ CrcMismatch(rd.s.dev.rxbuf)
                      /\ c.r # 0
                      /\ ~c.again
                      /\ c.s.h.wr = h.wr
                      /\ c.s.dev.n_s = dev.n_s
                      /\ c.s.dev.n_r = dev.n_r
                      /\ c.s.dev.txretransmit = dev.txretransmit
                      /\ c.s.dev.txbuf = dev.txbuf
                      /\ c.s.dev.txlen = dev.txlen))

\* A step in which recv_block has read a block with a damaged CRC, where the
\* caller of recv_block leaves the buffers alone.
BadCrcFailsQuietlyStep ==
    (/\ pc = "recv"
     /\ h'.rd > h.rd
     /\ dev'.rxbuf # ZeroBuf
     /\ At(dev'.rxbuf, 2) <= SIZE_INF_MAX
     /\ CrcMismatch(dev'.rxbuf)
     /\ env'.noise = env.noise + 1
     /\ h'.rd = h.rd + (IF At(dev'.rxbuf, 2) = 0 THEN 1 ELSE 2))
        => /\ h'.wr = h.wr
           /\ pc' \in {"done", "closed"}
           /\ ret' # 0
           /\ dev'.n_s = dev.n_s
           /\ dev'.n_r = dev.n_r
           /\ dev'.txretransmit = dev.txretransmit
           /\ dev'.txbuf = dev.txbuf
           /\ dev'.txlen = dev.txlen

BadCrcFails == []BadCrcFailsQuietly /\ [][BadCrcFailsQuietlyStep]_vars

\* A warm reset has failed on the block A5 00 02 90 00 with a damaged CRC.
BadCrcFailsWitness ==
    /\ op = "warm_reset"
    /\ pc = "done"
    /\ ret # 0
    /\ SubSeq(dev.rxbuf, 1, 7) = BadCrc(Blk(HOST_NAD, 0, <<144, 0>>))
    /\ Len(h.wr) = 1
    /\ h.rd = 2

(***************************************************************************)
(* C29: an S-block request of a type other than WTX (RESYNC, SET_IFS,      *)
(* ABORT, EOA, RESET, ATR, SOFT_RESET or an undefined type) makes          *)
(* recv_block fail without sending a response, and the xfer, warm reset or *)
(* hard reset that called it fails.                                        *)
(***************************************************************************)
\* The S-block requests of every type but WTX, without and with INF.
OtherRequests ==
    { Blk(HOST_NAD, pcb, inf) :
          pcb \in { p \in 192..255 : /\ is_s_block_request(p)
                                      /\ And(p, CMD_TYPE_MASK) # CMD_WTX },
          inf \in {<<>>, <<170>>} }

\* recv_block and its caller up to the caller's return, on such a request.
OtherRequestFailsNow ==
    pc = "recv" =>
        \A blk \in OtherRequests :
            /\ With(recv_block_check(
                        recv_block_read(Cur, blk, "ok", "ok").s, "ok"),
                    LAMBDA c : c.r # 0 /\ ~c.again /\ c.s.h.wr = h.wr)
            /\ With(halse_se05x_recv_block(Cur, blk, "ok", "ok", "ok", "ok"),
                    LAMBDA n : /\ n.pc \in {"done", "closed"}
                               /\ n.ret # 0
                               /\ n.op = op
                               /\ n.h.wr = h.wr)

\* A step in which recv_block has read such a request, where the caller of
\* recv_block leaves the buffers alone.
OtherRequestFailsStep ==
    (/\ pc = "recv"
     /\ h'.rd = h.rd + (IF At(dev'.rxbuf, 2) = 0 THEN 1 ELSE 2)
     /\ is_s_block_request(At(dev'.rxbuf, 1))
     /\ And(At(dev'.rxbuf, 1), CMD_TYPE_MASK) # CMD_WTX
     /\ At(dev'.rxbuf, 2) <= SIZE_INF_MAX
     /\ ~CrcMismatch(dev'.rxbuf))
        => /\ h'.wr = h.wr
           /\ pc' \in {"done", "closed"}
           /\ ret' # 0
           /\ op' = op

OtherRequestFails == []OtherRequestFailsNow /\ [][OtherRequestFailsStep]_vars

\* A warm reset has failed on the RESYNC request A5 C0 00.
OtherRequestFailsWitness ==
    /\ op = "warm_reset"
    /\ pc = "done"
    /\ ret # 0
    /\ SubSeq(dev.rxbuf, 1, 5) = Blk(HOST_NAD, 192, <<>>)
    /\ Len(h.wr) = 1
    /\ h.rd = 1

(***************************************************************************)
(* C30: a received block whose NAD is not 0xA5 and whose CRC is valid is   *)
(* accepted: the result of recv_block and every change of state are those  *)
(* of the same block carrying the NAD 0xA5 and the CRC that goes with it.  *)
(***************************************************************************)
\* NAD values other than HOST_NAD.
OtherNads == {0, SE05X_NAD, 255}

\* PCB and INF of the blocks compared.
NadPayloads ==
    { <<0, <<144, 0>> >>, <<32, <<97, 98>> >>, <<64, <<>> >>,
      <<128, <<>> >>, <<144, <<>> >>, <<130, <<>> >>,
      <<195, <<170>> >>, <<192, <<>> >>, <<230, <<>> >>,
      <<239, <<17, 34, 51, 68, 85>> >>, <<224, <<17, 34, 51, 68, 85>> >> }

\* The receive buffer without the NAD and the CRC of the block it holds.
MaskNadCrc(buf) ==
    LET len == At(buf, 2)
    IN  Store(Store(buf, 0, <<0>>), SIZE_PROLOGUE + len, <<0, 0>>)

NadIgnored ==
    pc = "recv" =>
        \A nad \in OtherNads, pl \in NadPayloads :
            With(halse_se05x_recv_block(Cur, Blk(nad, pl[1], pl[2]),
                                        "ok", "ok", "ok", "ok"),
                 LAMBDA n1 :
                 With(halse_se05x_recv_block(Cur, Blk(HOST_NAD, pl[1], pl[2]),
                                             "ok", "ok", "ok", "ok"),
                      LAMBDA n2 :
                          [n1 EXCEPT !.dev.rxbuf = MaskNadCrc(@)]
                              = [n2 EXCEPT !.dev.rxbuf = MaskNadCrc(@)]))

\* xfer has taken the chained I-block 00 20 02 61 62 with the NAD 0 into
\* the response and acknowledged it.
NadIgnoredWitness ==
    /\ pc = "recv"
    /\ op = "xfer"
    /\ cont = "read"
    /\ SubSeq(dev.rxbuf, 1, 7) = Blk(0, 32, <<97, 98>>)
    /\ Len(h.rx) = 1
    /\ h.rx[1].pcb = 32
    /\ h.rx_inf = <<97, 98>>
    /\ h.wr[Len(h.wr)].kind = "r_block"
    /\ h.wr[Len(h.wr)].r = 0

(***************************************************************************)
(* C31: when the device sends finitely many WTX requests and finitely many *)
(* chained I-blocks, every xfer that was called returns; R-blocks with     *)
(* error do not keep it running, since an exchange retransmits at most     *)
(* once and the R-block with error after that ends it.  Nothing but that   *)
(* finiteness stops a stream of WTX requests: recv_block answers a WTX     *)
(* request and goes on waiting however many it has answered.               *)
(***************************************************************************)
\* An exchange retransmits at most once.
XferResendsOnce ==
    op = "xfer" => /\ Resends(h.wr) <= 1
                   /\ h.err_r <= Resends(h.wr) + 1
                   /\ (pc # "done") => h.err_r = Resends(h.wr)

\* recv_block answers one more WTX request and waits on.
WtxNeverRefused ==
    pc = "recv" =>
        With(halse_se05x_recv_block(Cur, Blk(HOST_NAD, 195, <<170>>),
                                    "ok", "ok", "ok", "ok"),
             LAMBDA n : /\ n.pc = "recv"
                        /\ n.cont = cont
                        /\ n.h.wtx = h.wtx + 1)

XferTerminates ==
    /\ XferRunning ~> XferDone
    /\ []XferCanStep
    /\ []XferResendsOnce
    /\ []WtxNeverRefused

\* xfer has returned after a retransmission and a WTX request.
XferTerminatesWitness ==
    /\ XferDone
    /\ ret = 0
    /\ h.err_r = 1
    /\ Resends(h.wr) = 1
    /\ h.wtx = 1
    /\ Completed

(***************************************************************************)
(* C32: after halgpio_open_kernel has succeeded the line handle stays open *)
(* until close() is called, and on that handle each enable() sets the line *)
(* value to 1 and each disable() sets it to 0; neither is a silent no-op.  *)
(***************************************************************************)
GpioLineWorks ==
    pc = "gpio_idle" =>
        /\ io.line = "held"
        /\ io.gpio_fd = LineFd
        /\ LineFd \notin io.closed
        /\ \A k \in 1..Len(io.ops) :
              (io.ops[k].r = 0 /\ k = Len(io.ops))
                  => io.value = (IF io.ops[k].op = "enable" THEN 1 ELSE 0)

\* The line was opened, enable() has returned 0, and the line handle is
\* closed with the value still 0.
GpioNoOpWitness ==
    /\ pc = "gpio_idle"
    /\ io.ops = <<[op |-> "enable", r |-> 0]>>
    /\ io.gpio_fd = -1
    /\ io.line = "released"
    /\ io.value = 0

(***************************************************************************)
(* C33 (amended): on the Kerkey path, when the data a frame announces does *)
(* not fit into what is left of the caller's receive capacity,             *)
(* halse_kerkey_xfer returns -1 without reading that data: nothing is      *)
(* truncated, rx_buf and *rx_len keep the frames received before, and an   *)
(* xfer that returns 0 has delivered every announced byte.                 *)
(***************************************************************************)
\* The header read in this step announces more data than rx_buf has room.
KkOverflowStep ==
    /\ pc = "kk_read_res"
    /\ Len(io'.frames) = Len(io.frames) + 1
    /\ LET hdr == io'.frames[Len(io'.frames)]
       IN  hdr[2] > 0 /\ rx_off + hdr[2] > a.cap

RECURSIVE KkAnnounced(_)
KkAnnounced(frames) ==
    IF frames = <<>> THEN 0
    ELSE frames[Len(frames)][2] + KkAnnounced(SubSeq(frames, 1,
                                                      Len(frames) - 1))

KkOverflowFailsStep ==
    /\ KkOverflowStep => /\ pc' = "kk_done"
                         /\ ret' = -1
                         /\ rx_buf' = rx_buf
                         /\ rx_len' = rx_len
                         /\ io'.rd = io.rd
    /\ (pc' = "kk_done" /\ ret' = 0)
          => /\ rx_len' = KkAnnounced(io'.frames)
             /\ Len(rx_buf') = rx_len'
             /\ rx_len' <= a'.cap

BuffersInBounds(d, wr) ==
    /\ Len(d.txbuf) = BUF_SIZE
    /\ Len(d.rxbuf) = BUF_SIZE
    /\ d.txlen <= BUF_SIZE
    /\ \A k \in 1..Len(wr) : wr[k].len <= BUF_SIZE

NoOverrun ==
    /\ BuffersInBounds(dev, h.wr)
    /\ \A k \in 1..Len(h.rx) : h.rx[k].len <= SIZE_INF_MAX
    /\ pc = "recv" =>
          \A blk \in DevBlocks :
              With(recv_block_read(Cur, blk, "ok", "ok"), LAMBDA rd :
                   /\ BuffersInBounds(rd.s.dev, rd.s.h.wr)
                   /\ At(blk, 2) > SIZE_INF_MAX
                         => (rd.r # 0 /\ rd.s.h.rd = h.rd + 1)
                   /\ rd.r = 0
                         => SIZE_PROLOGUE + SIZE_EPILOGUE
                                + At(rd.s.dev.rxbuf, 2) <= BUF_SIZE)
    /\ pc = "xfer_write" =>
          With(send_i_block_write(Cur, Zeros(SIZE_INF_MAX + 1),
                                  SIZE_INF_MAX + 1, FALSE, "ok"),
               LAMBDA w : w.r # 0 /\ w.s = Cur)
    /\ pc = "idle" =>
          With(halse_se05x_send_s_block(Cur, CMD_RES, CMD_WTX,
                                        Zeros(SIZE_INF_MAX + 1),
                                        SIZE_INF_MAX + 1, "wtx", "ok"),
               LAMBDA w : w.r # 0 /\ w.s = Cur)

\* Both buffers were used up to their last byte: a transfer sent a block
\* of 259 bytes from txbuf and received 254 INF bytes into rxbuf.
NoOverrunWitness ==
    /\ XferDone
    /\ ret = 0
    /\ Len(h.wr) >= 1
    /\ h.wr[1].len = BUF_SIZE
    /\ Len(h.wr[1].blk) = BUF_SIZE
    /\ Len(h.rx) >= 1
    /\ h.rx[1].len = SIZE_INF_MAX

(***************************************************************************)
(* C35: N(S) is modified only by send_i_block, which toggles it before the *)
(* I2C write and so also when the write fails, and by clear_state, which   *)
(* sets it to 0.  recv_block, resend, send_r_block, send_s_block,          *)
(* power_down and the clearing of the buffers at the end of xfer leave it  *)
(* alone, so it carries over from one xfer to the next, also after a       *)
(* failed one.                                                             *)
(***************************************************************************)
\* The I2C writes the step has added to the history of the operation.
NewWrites ==
    LET base == IF pc \in {"xfer_write", "recv"} THEN Len(h.wr) ELSE 0
    IN  IF pc = "done" THEN <<>> ELSE SubSeq(h'.wr, base + 1, Len(h'.wr))

NewIBlockWrites ==
    Cardinality({ k \in 1..Len(NewWrites) : NewWrites[k].kind = "i_block" })

\* The operations that call halse_se05x_clear_state.
ClearingOps == {"open", "warm_reset", "power_up"}

NsFrameStep ==
    /\ NewIBlockWrites > 0 => dev'.n_s = (dev.n_s + NewIBlockWrites) % 2
    /\ NewIBlockWrites = 0 =>
          \/ dev'.n_s = dev.n_s
          \/ dev'.n_s = 0 /\ g' = NoSends /\ op' \in ClearingOps
    /\ pc = "xfer_write" => NewIBlockWrites = 1
    /\ (pc = "recv" /\ op = "xfer") => NewIBlockWrites = 0
    /\ pc = "idle" /\ op' = "xfer" => dev'.n_s = dev.n_s /\ h'.ns0 = dev.n_s

\* halse_se05x_get_atr leaves the whole session as it is.
GetAtrKeepsSession ==
    pc = "idle" => halse_se05x_get_atr(Cur, 0).s.dev = dev

NsFrame == []GetAtrKeepsSession /\ [][NsFrameStep]_vars

\* The only I-block of the first xfer was not written, and yet the second
\* xfer started with N(S) = 1: it has sent its I-block with bit 6 set and
\* has returned 0 with N(S) = 0.
NsFrameWitness ==
    /\ XferDone
    /\ calls = 2
    /\ g.failed
    /\ Len(g.sent) = 1
    /\ g.ok = 1
    /\ h.ns0 = 1
    /\ Len(h.wr) = 1
    /\ h.wr[1].kind = "i_block"
    /\ Bit(h.wr[1].pcb, 6) = 1
    /\ ret = 0
    /\ dev.n_s = 0

(***************************************************************************)
(* C36: whenever recv_block returns success, the block it leaves in rxbuf  *)
(* has a matching CRC, the length it reports is the LEN byte of the block  *)
(* and at most 254, and the block is neither an S-block request nor an     *)
(* R-block with a non-zero EE; so the check of EE that send_i_block makes  *)
(* on the token-passing R-block never fails.                               *)
(***************************************************************************)
\* What recv_block leaves in rxbuf when it returns 0.
CleanBlock(buf) ==
    /\ ~CrcMismatch(buf)
    /\ At(buf, 2) <= SIZE_INF_MAX
    /\ ~is_s_block_request(At(buf, 1))
    /\ ~is_r_block_with_error(At(buf, 1))
    /\ is_r_block(At(buf, 1)) => And(At(buf, 1), CMD_ERROR_MASK) = 0

RecvSuccessIsClean ==
    /\ pc = "recv" =>
          \A blk \in DevBlocks, ro \in ReadOutcomes, ri \in ReadOutcomes :
              With(recv_block_read(Cur, blk, ro, ri), LAMBDA rd :
                   rd.r = 0 =>
                       With(recv_block_check(rd.s, "ok"), LAMBDA c :
                            (c.r = 0 /\ ~c.again)
                                => CleanBlock(c.s.dev.rxbuf)))
    /\ \A k \in 1..Len(h.tok) :
          is_r_block(h.tok[k].pcb) => And(h.tok[k].pcb, CMD_ERROR_MASK) = 0
    /\ \A k \in 1..Len(h.rx) :
          /\ h.rx[k].len <= SIZE_INF_MAX
          /\ ~is_s_block_request(h.rx[k].pcb)
          /\ ~is_r_block_with_error(h.rx[k].pcb)

\* recv_block has returned 0 to send_i_block with an R-block, and to the
\* read loop with an I-block of two bytes.
RecvSuccessIsCleanWitness ==
    /\ XferDone
    /\ ret = 0
    /\ Len(h.tok) = 1
    /\ is_r_block(h.tok[1].pcb)
    /\ Len(h.rx) = 1
    /\ is_i_block(h.rx[1].pcb)
    /\ h.rx[1].len = 2

(***************************************************************************)
(* C37: when warm_reset fails, because the SOFT_RESET request cannot be    *)
(* sent, because the receive fails, or because the PCB of the response is  *)
(* not 0xEF, the cached ATR and atr_len are what they were before the      *)
(* call, while N(S) and N(R) have been cleared to 0.                       *)
(***************************************************************************)
\* A step of warm_reset that does not end in its success.
WarmResetUnfinishedStep ==
    /\ op' = "warm_reset"
    /\ pc \in {"idle", "recv"}
    /\ ~(pc' = "done" /\ ret' = 0)

WarmResetFailureStep ==
    WarmResetUnfinishedStep =>
        /\ dev'.atr = dev.atr
        /\ dev'.atr_len = dev.atr_len
        /\ dev'.atr_set = dev.atr_set
        /\ env'.heap = env.heap
        /\ dev'.n_s = 0
        /\ dev'.n_r = 0
        /\ pc' = "done" => ret' = -1

WarmResetFailureKeepsAtr == [][WarmResetFailureStep]_vars

\* A warm reset on a session whose N(S) was 1 has failed on a block with a
\* good CRC whose PCB is not 0xEF and whose INF field is not the cached ATR.
WarmResetFailureWitness ==
    /\ op = "warm_reset"
    /\ pc = "done"
    /\ ret = -1
    /\ h.ns0 = 1
    /\ dev.n_s = 0
    /\ dev.n_r = 0
    /\ ~CrcMismatch(dev.rxbuf)
    /\ At(dev.rxbuf, 1) # Or(Or(S_BLOCK, CMD_RES), CMD_SOFT_RESET)
    /\ At(dev.rxbuf, 2) > 0
    /\ dev.atr_set
    /\ dev.atr_len > 0
    /\ dev.atr # SubSeq(dev.rxbuf, SIZE_PROLOGUE + 1,
                        SIZE_PROLOGUE + At(dev.rxbuf, 2))

(***************************************************************************)
(* C38: halse_se05x_get_atr reads the cached ATR only at indices below     *)
(* atr_len, for every ATR that a successful warm reset can cache.          *)
(***************************************************************************)
GetAtrReadsInBounds ==
    (pc = "idle" /\ dev.atr_set) =>
        \A junk \in JunkBytes :
            \A i \in get_atr_reads(Cur, junk) : i < dev.atr_len

\* get_atr has returned an ATR of 9 bytes for a cached ATR of one byte: it
\* has read DLLP_LEN, PLP_LEN and HB_LEN behind the end of the allocation.
GetAtrReadsBeyondWitness ==
    /\ GetAtrDone
    /\ dev.atr_set
    /\ dev.atr_len = 1
    /\ Len(dev.atr) = 1
    /\ ret = 0
    /\ rx_len = Len(atr_prologue) + 1

(***************************************************************************)
(* C39: N(R) of the session is 0 in every reachable state: only            *)
(* clear_state writes it, and no received block is checked against it, so  *)
(* the read loop accepts an I-block whatever its N(S) bit is, also one     *)
(* that repeats the N(S) of the I-block before.                            *)
(***************************************************************************)
NrNeverUsed ==
    /\ dev.n_r = 0
    /\ (op = "xfer" /\ pc = "recv" /\ cont = "read") =>
          \A blk \in DevIBlocks :
              With(halse_se05x_recv_block(Cur, blk, "ok", "ok", "ok", "ok"),
                   LAMBDA n :
                       /\ n.dev.n_r = 0
                       /\ Len(n.h.rx) = Len(h.rx) + 1
                       /\ n.h.rx[Len(n.h.rx)].pcb = At(blk, 1)
                       /\ And(At(blk, 1), CHAIN_FIELD) = 0
                             => n.pc = "done" /\ n.ret = 0
                       /\ And(At(blk, 1), CHAIN_FIELD) # 0
                             => /\ n.pc = "recv"
                                /\ n.h.wr[Len(n.h.wr)].pcb
                                      = Or(R_BLOCK,
                                           16 * Xor(Bit(At(blk, 1), 6), 1)))

\* xfer has returned 0 after two I-blocks that both carried N(S) = 0.
NrNeverUsedWitness ==
    /\ XferDone
    /\ ret = 0
    /\ Len(h.rx) = 2
    /\ is_i_block(h.rx[1].pcb)
    /\ is_i_block(h.rx[2].pcb)
    /\ Bit(h.rx[1].pcb, 6) = 0
    /\ Bit(h.rx[2].pcb, 6) = 0
    /\ dev.n_r = 0

(***************************************************************************)
(* C40: after halse_open(lun, config) has returned NULL because the device *)
(* could not be created, the table of LUNs is as it was before the call:   *)
(* halse_exists(lun) is false, a later IFDHCreateChannelByName for the     *)
(* same Lun is not rejected as already open, and no number of failing      *)
(* opens exhausts the 16 slots of the table.                               *)
(***************************************************************************)
\* A slot of the table is free.
LunSlotFree == \E i \in 1..MAX_SE_DEVICES : ~io.tab[i].in_use

\* IFDHCreateChannelByName has failed after it had called halse_open.
LunOpenFailed ==
    /\ io.last.call = "create"
    /\ ~io.last.existed
    /\ io.last.r = "IFD_NO_SUCH_DEVICE"

FailedOpenLeavesTable ==
    /\ LunOpenFailed => ~halse_exists(Cur, io.last.lun)
    /\ (io.last.call = "create" /\ io.last.existed)
          => \E i \in 1..MAX_SE_DEVICES :
                 /\ io.tab[i].in_use
                 /\ io.tab[i].lun = io.last.lun
                 /\ io.tab[i].dev
    /\ io.good = 0 => LunSlotFree

\* Sixteen opens have failed, each for another LUN, and no device was ever
\* created: every slot is in use without a device, and the open for a
\* seventeenth LUN with a good configuration has failed.
TableExhaustedWitness ==
    /\ io.good = 0
    /\ \A i \in 1..MAX_SE_DEVICES : io.tab[i].in_use /\ ~io.tab[i].dev
    /\ io.last.call = "create"
    /\ io.last.lun = MAX_SE_DEVICES
    /\ io.last.config = "good"
    /\ ~io.last.existed
    /\ io.last.r = "IFD_NO_SUCH_DEVICE"

=============================================================================
